---- MODULE Spec2Model ----
(***************************************************************************)
(* A model of the HOMINIDS foraging simulation (hominids_model.py,         *)
(* plant_system.py, carcass_system.py).                                    *)
(*                                                                         *)
(* Python floats are represented by integers: grams, calories and plant    *)
(* abundances are fixed-point numbers, fractions (0.01, 0.99, 0.5, ...)    *)
(* are percentages, and a division rounds down to the unit.  A draw of     *)
(* the random generator is a nondeterministic choice.                      *)
(***************************************************************************)
EXTENDS Integers, Sequences, FiniteSets, TLC

VARIABLES
    params,            \* HOMINIDSModel.params: the Parameters object (never changes)
    plant_species,     \* HOMINIDSModel.plant_species: the catalog (never changes)
    current_day,       \* HOMINIDSModel.current_day
    current_season,    \* HOMINIDSModel.current_season
    current_minute,    \* HOMINIDSModel.current_minute
    hominid_agents,    \* HOMINIDSModel.hominid_agents: the agents, in creation order
    cell_food,         \* CellFood.food_amounts of every grid cell
    carcass_objs,      \* every Carcass object created so far (the heap)
    carcasses,         \* CarcassManager.carcasses: the active list (indices of carcass_objs)
    found_carcasses,   \* HOMINIDSModel.found_carcasses
    pc,                \* position inside HOMINIDSModel.step: "idle" or "agents"
    agents_shuffled,   \* step(): the part of the shuffled order not yet processed
    steps,             \* number of completed calls of HOMINIDSModel.step
    turns,             \* per agent: calls of HominidAgent.step in the current model step
    probe,             \* the last observed call of a query (arguments and result)
    runs               \* two constructions of the model compared with each other

vars == <<params, plant_species, current_day, current_season, current_minute,
          hominid_agents, cell_food, carcass_objs, carcasses, found_carcasses,
          pc, agents_shuffled, steps, turns, probe, runs>>

\* Python's None, for a position, a carcass and a plant choice
NoPos == <<-1, -1>>
NoCarcass == 0
NoPlant == <<0, NoPos>>

Min(a, b) == IF a <= b THEN a ELSE b
Max(a, b) == IF a >= b THEN a ELSE b
Abs(a) == IF a >= 0 THEN a ELSE -a

RECURSIVE SumSeq(_)
SumSeq(s) == IF s = <<>> THEN 0 ELSE Head(s) + SumSeq(Tail(s))

Range(s) == {s[i] : i \in DOMAIN s}

\* An order that may name an agent twice and leave another out
Arrangements_of(S) == [1..Cardinality(S) -> S]

\* random.shuffle of a copy of the list S: any order of its elements
Permutations_of(S) ==
    {q \in [1..Cardinality(S) -> S] : \A i, j \in DOMAIN q : i # j => q[i] # q[j]}

(***************************************************************************)
(* Parameters._load_general_parameters.  Fractions are percentages;        *)
(* carcass appearance and size probabilities are all strictly between 0    *)
(* and 1, so every draw against them can go either way and they are not    *)
(* part of the record.                                                     *)
(***************************************************************************)
DefaultParams ==
    [ wandering_distance |-> 2,
      earshot_distance |-> 10,
      nest_scan_distance |-> 10,
      days_in_year |-> 365,
      number_of_seasons |-> 4,
      active_time_units_per_day |-> 720,
      extra_nesting_steps |-> 180,
      initial_food_percentage |-> 1,
      final_food_percentage |-> 99,
      boisei_daily_calorie_requirement |-> 2500,
      boisei_belly_capacity_grams |-> 4500,
      boisei_diet_track_length |-> 14,
      boisei_diet_threshold |-> 50,
      boisei_group_nesting_agent_threshold |-> 25,
      ergaster_daily_calorie_requirement |-> 3500,
      ergaster_belly_capacity_grams |-> 5000,
      ergaster_diet_track_length |-> 14,
      ergaster_diet_threshold |-> 50,
      ergaster_group_nesting_agent_threshold |-> 25,
      number_of_agents_for_carcass |-> 3,
      carcass_detection_range |-> 5,
      carcass_grams_eaten_per_unit_time |-> 50,
      carcass_calories_per_gram |-> 1570,
      small_carcass_weight_grams |-> 1000,
      medium_carcass_weight_grams |-> 10000,
      large_carcass_weight_grams |-> 100000,
      grid_width |-> 1,
      grid_height |-> 1,
      landscape_grid |-> [c \in {<<0, 0>>} |-> "UNFLOODED"],
      \* bounds of the exploration, not fields of Parameters:
      max_steps |-> 0,
      max_carcasses |-> 0 ]

(***************************************************************************)
(* The grid: MultiGrid(width, height, torus=True).                         *)
(***************************************************************************)
Cells == (0..(params.grid_width - 1)) \X (0..(params.grid_height - 1))

\* MultiGrid.get_neighborhood(pos, moore=True, include_center=True) on a torus:
\* the coordinates are wrapped and collected in a dict, so each cell appears once.
get_neighborhood(pos) ==
    {<<(pos[1] + dx) % params.grid_width, (pos[2] + dy) % params.grid_height>> :
        dx \in -1..1, dy \in -1..1}

\* HominidAgent.calculate_distance, squared: the code compares (dx**2 + dy**2)**0.5,
\* and the square root is monotone.
calculate_distance(pos1, pos2) ==
    LET dx0 == Abs(pos2[1] - pos1[1])
        dy0 == Abs(pos2[2] - pos1[2])
        dx == IF 2 * dx0 > params.grid_width THEN params.grid_width - dx0 ELSE dx0
        dy == IF 2 * dy0 > params.grid_height THEN params.grid_height - dy0 ELSE dy0
    IN dx * dx + dy * dy

(***************************************************************************)
(* plant_system.py.  One plant (the 1.0 of consume_food) is OneUnit        *)
(* fixed-point units of abundance.                                         *)
(***************************************************************************)
OneUnit == 1000

\* PlantSpecies.__init__: return_rate
return_rate(sp) ==
    IF sp.handling_time_minutes > 0
    THEN (sp.grams_per_feeding_unit * sp.calories_per_gram) \div sp.handling_time_minutes
    ELSE 0

\* PlantSpecies.is_fruiting
is_fruiting(sp, season) ==
    IF season < 1 \/ season > 4 THEN FALSE ELSE sp.seasons_fruiting[season]

\* can_be_eaten_by without the test of the disable flag
can_be_eaten_by_though_disabled(sp, species_name, has_tools) ==
    IF species_name = "boisei" /\ ~sp.edible_by_boisei THEN FALSE
    ELSE IF species_name = "ergaster" /\ ~sp.edible_by_ergaster THEN FALSE
    ELSE IF sp.tools_required /\ ~has_tools THEN FALSE
    ELSE TRUE


\* PlantSpecies.can_be_eaten_by
can_be_eaten_by(sp, species_name, has_tools) ==
    IF species_name = "boisei" /\ ~sp.edible_by_boisei THEN FALSE
    ELSE IF species_name = "ergaster" /\ ~sp.edible_by_ergaster THEN FALSE
    ELSE IF sp.tools_required /\ ~has_tools THEN FALSE
    ELSE ~sp.disabled

SpeciesIds == DOMAIN plant_species

\* CellFood.__init__: the carrying capacity of a species in a cell, by topography
max_food_amount(cell, sid) ==
    LET topography == params.landscape_grid[cell]
        sp == plant_species[sid]
    IN IF topography = "CHANNEL" THEN sp.plants_per_channel
       ELSE IF topography = "FLOODED" THEN sp.plants_per_flooded
       ELSE sp.plants_per_unflooded

\* CellFood.__init__: food starts at capacity * initial_food_percentage
initial_food_amount(cell, sid) ==
    (max_food_amount(cell, sid) * params.initial_food_percentage) \div 100

\* update_food whose decay outside the fruiting season has no lower limit
update_food_amount_unfloored(current, max_amount, is_fruiting_season) ==
    IF is_fruiting_season /\ max_amount > 0
    THEN LET target == (max_amount * params.final_food_percentage) \div 100
         IN IF current > 0
            THEN Min(current + (current * (target - current)) \div (10 * target), target)
            ELSE max_amount \div 100
    ELSE (current * 95) \div 100

\* update_food that leaves an empty species empty in its fruiting season
update_food_amount_unseeded(current, max_amount, is_fruiting_season) ==
    IF is_fruiting_season /\ max_amount > 0
    THEN LET target == (max_amount * params.final_food_percentage) \div 100
         IN Min(current + (current * (target - current)) \div (10 * target), target)
    ELSE Max((current * 95) \div 100,
             (max_amount * params.initial_food_percentage) \div 100)

\* CellFood.update_food, for one species of one cell: the new amount
update_food_amount(current, max_amount, is_fruiting_season) ==
    IF is_fruiting_season /\ max_amount > 0
    THEN LET target == (max_amount * params.final_food_percentage) \div 100
             K == target
         IN IF current > 0
            THEN LET growth == (current * (K - current)) \div (10 * K)   \* r = 0.1
                     new_amount == current + growth
                 IN Min(new_amount, target)
            ELSE max_amount \div 100                                    \* max_amount * 0.01
    ELSE LET target == (max_amount * params.initial_food_percentage) \div 100
             new_amount == (current * 95) \div 100                      \* decay_rate = 0.05
         IN Max(new_amount, target)

\* CellFood.update_food, for a whole cell
update_food(amounts, cell, season) ==
    [sid \in DOMAIN amounts |->
        update_food_amount(amounts[sid], max_food_amount(cell, sid),
                           plant_species[sid].seasons_fruiting[season])]

\* CellFood.consume_food without the floor at 0
consume_food_unfloored(amounts, sid, amount) ==
    [amounts EXCEPT ![sid] = @ - amount]

\* CellFood.consume_food
consume_food(amounts, sid, amount) ==
    [amounts EXCEPT ![sid] = Max(0, @ - amount)]

\* CellFood.get_available_food: the species ids fruiting now with a positive amount
get_available_food(amounts, season) ==
    {sid \in DOMAIN amounts : is_fruiting(plant_species[sid], season) /\ amounts[sid] > 0}

(***************************************************************************)
(* carcass_system.py.  A Carcass object is a record of carcass_objs; the   *)
(* objects are named by their index there (Python compares them by         *)
(* identity).                                                              *)
(***************************************************************************)
\* Carcass.__init__
Carcass(size, weight_grams, location) ==
    [ size |-> size, weight_grams |-> weight_grams, remaining_grams |-> weight_grams,
      location |-> location, agents_present |-> {} ]

\* Carcass.can_scavenge_individually
can_scavenge_individually(c) == c.size = "small"

\* Carcass.needs_cooperation
needs_cooperation(n_agents_present, threshold) == n_agents_present >= threshold

\* Carcass.consume_meat: the carcass after the call (the amount taken is
\* min(grams, remaining_grams))
consume_meat(c, grams) ==
    LET actual_consumed == Min(grams, c.remaining_grams)
    IN [c EXCEPT !.remaining_grams = @ - actual_consumed]

\* Carcass.is_depleted
is_depleted(c) == c.remaining_grams <= 0

\* Carcass.get_meat_available
get_meat_available(c) == c.remaining_grams

\* get_carcasses_in_range without the is_depleted test
get_carcasses_in_range_any(objs, list, agent_pos, detection_range) ==
    LET InRange(i) ==
            Abs(agent_pos[1] - objs[i].location[1])
              + Abs(agent_pos[2] - objs[i].location[2]) <= detection_range
    IN SelectSeq(list, InRange)

\* CarcassManager.get_carcasses_in_range: the carcasses of the active list, in
\* list order, that are not depleted and within the raw Manhattan distance
get_carcasses_in_range(objs, list, agent_pos, detection_range) ==
    LET InRange(i) ==
            /\ ~is_depleted(objs[i])
            /\ Abs(agent_pos[1] - objs[i].location[1])
                 + Abs(agent_pos[2] - objs[i].location[2]) <= detection_range
    IN SelectSeq(list, InRange)

\* CarcassManager.update_carcass_agents
update_carcass_agents(objs, list, agents) ==
    [i \in DOMAIN objs |->
        IF i \in Range(list)
        THEN [objs[i] EXCEPT !.agents_present =
                 {a \in DOMAIN agents : agents[a].pos = objs[i].location}]
        ELSE objs[i]]

\* remove_depleted_carcasses removing nothing
remove_depleted_carcasses_never(objs, list) == list

\* CarcassManager.remove_depleted_carcasses
remove_depleted_carcasses(objs, list) ==
    LET Keep(i) == ~is_depleted(objs[i]) IN SelectSeq(list, Keep)

\* carcass_system.can_scavenge_carcass
can_scavenge_carcass(c, agent) ==
    IF ~agent.can_eat_meat THEN FALSE
    ELSE IF is_depleted(c) THEN FALSE
    ELSE IF can_scavenge_individually(c) THEN TRUE
    ELSE IF agent.cooperates
         THEN needs_cooperation(Cardinality(c.agents_present),
                                params.number_of_agents_for_carcass)
         ELSE FALSE

\* calculate_meat_consumption without the limit by the meat available
calculate_meat_consumption_unlimited(c) ==
    IF c.size = "small" THEN params.carcass_grams_eaten_per_unit_time
    ELSE IF Cardinality(c.agents_present) > 0
    THEN params.carcass_grams_eaten_per_unit_time \div Cardinality(c.agents_present)
    ELSE 0

\* carcass_system.calculate_meat_consumption
calculate_meat_consumption(c) ==
    LET base_consumption == params.carcass_grams_eaten_per_unit_time
        n_agents == Cardinality(c.agents_present)
        consumption == IF c.size = "small" THEN base_consumption
                       ELSE IF n_agents > 0 THEN base_consumption \div n_agents
                       ELSE 0
    IN Min(consumption, get_meat_available(c))

\* CarcassManager._create_carcass_at_location: the weight of a size
carcass_weight(size) ==
    IF size = "small" THEN params.small_carcass_weight_grams
    ELSE IF size = "medium" THEN params.medium_carcass_weight_grams
    ELSE params.large_carcass_weight_grams

\* The cells in the order of "for x in range(width): for y in range(height)"
CellSeq ==
    [i \in 1..(params.grid_width * params.grid_height) |->
        <<(i - 1) \div params.grid_height, (i - 1) % params.grid_height>>]

\* CarcassManager.check_for_new_carcasses with _create_carcass_at_location and
\* _determine_carcass_size: every cell draws against its zone's probability, and a
\* new carcass draws its size; `draw` gives each cell "none" or the size drawn.
\* Returns the objects and the active list after the call.
RECURSIVE create_carcasses(_, _, _, _)
create_carcasses(objs, list, draw, i) ==
    IF i > Len(CellSeq) THEN [objs |-> objs, list |-> list]
    ELSE IF draw[CellSeq[i]] = "none" THEN create_carcasses(objs, list, draw, i + 1)
    ELSE LET size == draw[CellSeq[i]]
             obj == Carcass(size, carcass_weight(size), CellSeq[i])
         IN create_carcasses(Append(objs, obj), Append(list, Len(objs) + 1), draw, i + 1)

\* The draws check_for_new_carcasses can make; the exploration creates at most
\* params.max_carcasses objects in all.
SpawnDraws(objs) ==
    IF Len(objs) >= params.max_carcasses THEN {[c \in Cells |-> "none"]}
    ELSE {draw \in [Cells -> {"none", "small", "medium", "large"}] :
            Len(objs) + Cardinality({c \in Cells : draw[c] # "none"})
                <= params.max_carcasses}

check_for_new_carcasses(objs, list, draw) == create_carcasses(objs, list, draw, 1)

(***************************************************************************)
(* hominids_model.py: HominidAgent.  An agent is a record of               *)
(* hominid_agents.  The methods that change the agent, the cells or the    *)
(* carcasses map a world W = [agents, objs, found, food] (hominid_agents,  *)
(* carcass_objs, found_carcasses, cell_food) to the world after the call.  *)
(***************************************************************************)
\* str.lower on an option string, held as the set of its letters
lower(options) ==
    {IF ch = "G" THEN "g" ELSE IF ch = "I" THEN "i" ELSE IF ch = "D" THEN "d"
     ELSE IF ch = "M" THEN "m" ELSE IF ch = "C" THEN "c" ELSE ch : ch \in options}

\* HOMINIDSModel._parse_agent_options
parse_agent_options(options) ==
    [ group_nesting |-> "g" \in lower(options), can_dig |-> "d" \in lower(options),
      can_eat_meat |-> "m" \in lower(options), cooperates |-> "c" \in lower(options) ]

\* HominidAgent.__init__ keeping the cooperation flag as configured
HominidAgent_as_configured(species, config, pos) ==
    [ species |-> species,
      group_nesting |-> config.group_nesting,
      can_dig |-> config.can_dig,
      can_eat_meat |-> config.can_eat_meat,
      cooperates |-> config.cooperates,
      calories_today |-> 0,
      calories_history |-> <<>>,
      gut_contents_grams |-> 0,
      active_time_remaining |-> params.active_time_units_per_day,
      is_nesting |-> FALSE,
      nest_location |-> NoPos,
      activity_log |-> <<>>,
      plant_calories_by_season |-> [s \in 1..4 |-> 0],
      carcass_calories_by_season |-> [s \in 1..4 |-> 0],
      root_calories_by_season |-> [s \in 1..4 |-> 0],
      nonroot_calories_by_season |-> [s \in 1..4 |-> 0],
      daily_plant_calories |-> <<>>,
      daily_carcass_calories |-> <<>>,
      ignored_carcasses |-> {},
      wait_timer |-> 0,
      waiting_at_carcass |-> NoCarcass,
      pos |-> pos ]

\* HominidAgent.__init__ (and the placement of _create_agents)
HominidAgent(species, config, pos) ==
    [ species |-> species,
      group_nesting |-> config.group_nesting,
      can_dig |-> config.can_dig,
      can_eat_meat |-> config.can_eat_meat,
      cooperates |-> config.cooperates /\ config.can_eat_meat,
      calories_today |-> 0,
      calories_history |-> <<>>,
      gut_contents_grams |-> 0,
      active_time_remaining |-> params.active_time_units_per_day,
      is_nesting |-> FALSE,
      nest_location |-> NoPos,
      activity_log |-> <<>>,
      plant_calories_by_season |-> [s \in 1..4 |-> 0],
      carcass_calories_by_season |-> [s \in 1..4 |-> 0],
      root_calories_by_season |-> [s \in 1..4 |-> 0],
      nonroot_calories_by_season |-> [s \in 1..4 |-> 0],
      daily_plant_calories |-> <<>>,
      daily_carcass_calories |-> <<>>,
      ignored_carcasses |-> {},
      wait_timer |-> 0,
      waiting_at_carcass |-> NoCarcass,
      pos |-> pos ]

\* HominidAgent.__init__: the species-specific parameters
daily_calorie_requirement(ag) ==
    IF ag.species = "boisei" THEN params.boisei_daily_calorie_requirement
    ELSE params.ergaster_daily_calorie_requirement

belly_capacity_grams(ag) ==
    IF ag.species = "boisei" THEN params.boisei_belly_capacity_grams
    ELSE params.ergaster_belly_capacity_grams

diet_track_length(ag) ==
    IF ag.species = "boisei" THEN params.boisei_diet_track_length
    ELSE params.ergaster_diet_track_length

diet_threshold(ag) ==
    IF ag.species = "boisei" THEN params.boisei_diet_threshold
    ELSE params.ergaster_diet_threshold

\* A dict or a zero-filled list with one entry increased: the by-day ledgers and
\* the activity log hold only the keys written so far (a missing key reads 0).
Get(f, k) == IF k \in DOMAIN f THEN f[k] ELSE 0
AddTo(f, k, v) ==
    IF k \in DOMAIN f THEN [f EXCEPT ![k] = @ + v] ELSE (k :> v) @@ f

\* activity_log[pos]['eating'] += 1 and activity_log[pos]['traveling'] += 1
log_activity(ag, cell, what) ==
    [ag EXCEPT !.activity_log = AddTo(@, <<cell, what>>, 1)]

\* MultiGrid.move_agent
move_agent(W, a, pos) == [W EXCEPT !.agents[a].pos = pos]

\* HominidAgent.step, lines 304-309 and 313-318: move to the plant's cell and log
move_to_plant_cell(W, a, plant_cell) ==
    IF plant_cell # W.agents[a].pos
    THEN [move_agent(W, a, plant_cell) EXCEPT
             !.agents[a] = log_activity(@, plant_cell, "traveling")]
    ELSE W

\* eat_food taking a whole feeding unit whatever room the gut has left
eat_food_uncapped(W, a, sid, season, day) ==
    LET ag == W.agents[a]
        sp == plant_species[sid]
        grams_to_eat == sp.grams_per_feeding_unit
    IN [W EXCEPT !.agents[a] = log_activity(
                     [ag EXCEPT !.calories_today = @ + grams_to_eat * sp.calories_per_gram,
                                !.gut_contents_grams = @ + grams_to_eat],
                     ag.pos, "eating"),
                 !.food[ag.pos] = consume_food(@, sid, OneUnit)]

\* eat_food that removes from the cell the share of a unit that was swallowed
eat_food_by_grams(W, a, sid, season, day) ==
    LET ag == W.agents[a]
        sp == plant_species[sid]
        grams_to_eat == Min(sp.grams_per_feeding_unit,
                            belly_capacity_grams(ag) - ag.gut_contents_grams)
        calories_gained == grams_to_eat * sp.calories_per_gram
        is_root == sp.tools_required \/ sp.has_digging_phase
        ag2 == [ag EXCEPT
                  !.calories_today = @ + calories_gained,
                  !.gut_contents_grams = @ + grams_to_eat,
                  !.plant_calories_by_season[season] = @ + calories_gained,
                  !.daily_plant_calories = AddTo(@, day, calories_gained),
                  !.root_calories_by_season[season] =
                      IF is_root THEN @ + calories_gained ELSE @,
                  !.nonroot_calories_by_season[season] =
                      IF is_root THEN @ ELSE @ + calories_gained]
    IN IF grams_to_eat <= 0 THEN W
       ELSE [W EXCEPT !.agents[a] = log_activity(ag2, ag.pos, "eating"),
                      !.food[ag.pos] =
                          consume_food(@, sid, (grams_to_eat * OneUnit)
                                                  \div sp.grams_per_feeding_unit)]

\* HominidAgent.eat_food
eat_food(W, a, sid, season, day) ==
    LET ag == W.agents[a]
        sp == plant_species[sid]
        grams_to_eat == Min(sp.grams_per_feeding_unit,
                            belly_capacity_grams(ag) - ag.gut_contents_grams)
        calories_gained == grams_to_eat * sp.calories_per_gram
        is_root == sp.tools_required \/ sp.has_digging_phase
        ag2 == [ag EXCEPT
                  !.calories_today = @ + calories_gained,
                  !.gut_contents_grams = @ + grams_to_eat,
                  !.plant_calories_by_season[season] = @ + calories_gained,
                  !.daily_plant_calories = AddTo(@, day, calories_gained),
                  !.root_calories_by_season[season] =
                      IF is_root THEN @ + calories_gained ELSE @,
                  !.nonroot_calories_by_season[season] =
                      IF is_root THEN @ ELSE @ + calories_gained]
    IN IF grams_to_eat <= 0 THEN W
       ELSE [W EXCEPT !.agents[a] = log_activity(ag2, ag.pos, "eating"),
                      !.food[ag.pos] = consume_food(@, sid, OneUnit)]

\* _consume_meat that takes the whole portion from the carcass, whatever the gut holds
consume_meat_whole_portion(W, a, cid, season, day) ==
    LET ag == W.agents[a]
        c == W.objs[cid]
        meat_grams == calculate_meat_consumption(c)
        actual_consumed == Min(meat_grams,
                               belly_capacity_grams(ag) - ag.gut_contents_grams)
        calories_gained == actual_consumed * params.carcass_calories_per_gram
        ag2 == [ag EXCEPT
                  !.calories_today = @ + calories_gained,
                  !.gut_contents_grams = @ + actual_consumed,
                  !.carcass_calories_by_season[season] = @ + calories_gained,
                  !.daily_carcass_calories = AddTo(@, day, calories_gained)]
    IN IF actual_consumed <= 0 THEN W
       ELSE [W EXCEPT !.objs[cid] = consume_meat(c, meat_grams),
                      !.agents[a] = log_activity(ag2, ag.pos, "eating")]

\* HominidAgent._consume_meat
consume_meat_by_agent(W, a, cid, season, day) ==
    LET ag == W.agents[a]
        c == W.objs[cid]
        meat_grams == calculate_meat_consumption(c)
        actual_consumed == Min(meat_grams,
                               belly_capacity_grams(ag) - ag.gut_contents_grams)
        calories_gained == actual_consumed * params.carcass_calories_per_gram
        ag2 == [ag EXCEPT
                  !.calories_today = @ + calories_gained,
                  !.gut_contents_grams = @ + actual_consumed,
                  !.carcass_calories_by_season[season] = @ + calories_gained,
                  !.daily_carcass_calories = AddTo(@, day, calories_gained)]
    IN IF actual_consumed <= 0 THEN W
       ELSE [W EXCEPT !.objs[cid] = consume_meat(c, actual_consumed),
                      !.agents[a] = log_activity(ag2, ag.pos, "eating")]

\* ignore_carcass leaving the ignore set as it was
ignore_carcass_forgotten(W, a, cid) == W

\* HominidAgent.ignore_carcass
ignore_carcass(W, a, cid) ==
    [W EXCEPT !.agents[a].ignored_carcasses = @ \cup {cid}]

\* HominidAgent.notify_others_of_carcass
notify_others_of_carcass(W, a, cid) ==
    IF ~W.agents[a].cooperates THEN W
    ELSE IF cid \notin Range(W.found) THEN [W EXCEPT !.found = Append(@, cid)]
    ELSE W

\* The count taken over the agents of every species
n_agents_at_any_species(W, a, cid) ==
    Cardinality({b \in DOMAIN W.agents : W.agents[b].pos = W.objs[cid].location})

\* The count of scavenge_carcass and wait_at_carcass: the agents of the caller's
\* species whose position is the carcass's location
n_agents_at(W, a, cid) ==
    Cardinality({b \in DOMAIN W.agents :
        /\ W.agents[b].pos = W.objs[cid].location
        /\ W.agents[b].species = W.agents[a].species})

\* HominidAgent.wait_at_carcass: the world after the call and the value returned
wait_at_carcass(W, a, cid) ==
    LET ag == W.agents[a]
        n_agents_present == n_agents_at(W, a, cid)
        required == params.number_of_agents_for_carcass
    IN IF n_agents_present >= required
       THEN [W |-> [W EXCEPT !.agents[a].wait_timer = 0,
                             !.agents[a].waiting_at_carcass = NoCarcass],
             can_eat |-> TRUE]
       ELSE IF ag.wait_timer <= 0
       THEN [W |-> [ignore_carcass(W, a, cid) EXCEPT
                             !.agents[a].waiting_at_carcass = NoCarcass],
             can_eat |-> FALSE]
       ELSE [W |-> [W EXCEPT !.agents[a].wait_timer = @ - 1], can_eat |-> FALSE]

\* The wait started by scavenge_carcass, line 450
WaitLength == 10

\* HominidAgent.scavenge_carcass
scavenge_carcass(W0, a, cid, season, day) ==
    LET n_agents_here == n_agents_at(W0, a, cid)
        W == IF n_agents_here = 1 /\ W0.agents[a].cooperates
             THEN notify_others_of_carcass(W0, a, cid) ELSE W0
        ag == W.agents[a]
        required == params.number_of_agents_for_carcass
    IN IF W.objs[cid].size = "small" THEN consume_meat_by_agent(W, a, cid, season, day)
       ELSE IF n_agents_here >= required THEN consume_meat_by_agent(W, a, cid, season, day)
       ELSE IF ag.cooperates /\ ag.wait_timer = 0
       THEN [W EXCEPT !.agents[a].wait_timer = WaitLength,
                      !.agents[a].waiting_at_carcass = cid]
       ELSE IF ag.cooperates /\ ag.waiting_at_carcass = cid
       THEN LET r == wait_at_carcass(W, a, cid)
            IN IF r.can_eat THEN consume_meat_by_agent(r.W, a, cid, season, day) ELSE r.W
       ELSE ignore_carcass(W, a, cid)

\* HominidAgent.scan_for_food, before the detection draws: the (species, cell)
\* pairs of the neighbourhood that are available this season and edible
food_candidates(W, a, season) ==
    LET ag == W.agents[a]
    IN {o \in SpeciesIds \X get_neighborhood(ag.pos) :
          /\ o[1] \in get_available_food(W.food[o[2]], season)
          /\ can_be_eaten_by(plant_species[o[1]], ag.species, ag.can_dig)}

\* HominidAgent.scan_for_food: the sets of options the detection draws can leave.
\* random() < visibility_probability always succeeds at 1.0 (100) and never at 0.
scan_for_food(W, a, season) ==
    LET cand == food_candidates(W, a, season)
        sure == {o \in cand : plant_species[o[1]].visibility_probability >= 100}
        maybe == {o \in cand : /\ plant_species[o[1]].visibility_probability > 0
                               /\ plant_species[o[1]].visibility_probability < 100}
    IN {sure \cup m : m \in SUBSET maybe}

\* HominidAgent.scan_for_carcasses
scan_for_carcasses(W, list, a) ==
    LET ag == W.agents[a]
        nearby_carcasses == get_carcasses_in_range(W.objs, list, ag.pos,
                                                   params.carcass_detection_range)
        Scavengable(i) == can_scavenge_carcass(W.objs[i], ag)
    IN IF ~ag.can_eat_meat THEN <<>> ELSE SelectSeq(nearby_carcasses, Scavengable)

\* HominidAgent.choose_best_carcass: max() returns the first maximum
choose_best_carcass(W, carcass_options) ==
    IF carcass_options = <<>> THEN NoCarcass
    ELSE LET best == CHOOSE i \in DOMAIN carcass_options :
                 /\ \A j \in DOMAIN carcass_options :
                       get_meat_available(W.objs[carcass_options[j]])
                         <= get_meat_available(W.objs[carcass_options[i]])
                 /\ \A j \in 1..(i - 1) :
                       get_meat_available(W.objs[carcass_options[j]])
                         < get_meat_available(W.objs[carcass_options[i]])
         IN carcass_options[best]

\* HominidAgent.check_for_carcass_calls, the distance of lines 505-514
call_distance(pos, location) ==
    LET dx0 == Abs(location[1] - pos[1])
        dy0 == Abs(location[2] - pos[2])
        dx == IF 2 * dx0 > params.grid_width THEN params.grid_width - dx0 ELSE dx0
        dy == IF 2 * dy0 > params.grid_height THEN params.grid_height - dy0 ELSE dy0
    IN dx + dy

\* HominidAgent.check_for_carcass_calls, the loop over found_carcasses from index i
RECURSIVE closest_call(_, _, _, _, _)
closest_call(W, a, i, closest_carcass, closest_distance) ==
    IF i > Len(W.found) THEN closest_carcass
    ELSE LET cid == W.found[i]
             distance == call_distance(W.agents[a].pos, W.objs[cid].location)
         IN IF cid \in W.agents[a].ignored_carcasses
            THEN closest_call(W, a, i + 1, closest_carcass, closest_distance)
            ELSE IF distance <= params.earshot_distance /\ distance < closest_distance
            THEN closest_call(W, a, i + 1, cid, distance)
            ELSE closest_call(W, a, i + 1, closest_carcass, closest_distance)

\* check_for_carcass_calls that lets every agent hear a call
check_for_carcass_calls_by_anyone(W, a) ==
    IF W.found = <<>> THEN NoCarcass
    ELSE closest_call(W, a, 1, NoCarcass, params.earshot_distance + 1)

\* HominidAgent.check_for_carcass_calls
check_for_carcass_calls(W, a) ==
    IF ~W.agents[a].can_eat_meat THEN NoCarcass
    ELSE IF W.found = <<>> THEN NoCarcass
    ELSE closest_call(W, a, 1, NoCarcass, params.earshot_distance + 1)

\* choose_best_food taking the nearest viable option whatever its return rate
choose_best_food_nearest(W, a, food_options) ==
    LET ag == W.agents[a]
        viable_options == {o \in food_options :
                             /\ W.food[o[2]][o[1]] > 0
                             /\ ag.gut_contents_grams < belly_capacity_grams(ag)}
        Dist(o) == calculate_distance(ag.pos, o[2])
    IN IF viable_options = {} THEN {NoPlant}
       ELSE {o \in viable_options : \A q \in viable_options : Dist(o) <= Dist(q)}

\* HominidAgent.choose_best_food: the choices random.choice can return
\* ({NoPlant} for (None, None)).  An option is (species id, cell).
choose_best_food(W, a, food_options) ==
    LET ag == W.agents[a]
        viable_options == {o \in food_options :
                             /\ W.food[o[2]][o[1]] > 0
                             /\ ag.gut_contents_grams < belly_capacity_grams(ag)}
        Rate(o) == return_rate(plant_species[o[1]])
        Dist(o) == calculate_distance(ag.pos, o[2])
        \* the first element after sort(key=(-return_rate, distance))
        first == CHOOSE o \in viable_options :
                    \A q \in viable_options :
                        \/ Rate(q) < Rate(o)
                        \/ Rate(q) = Rate(o) /\ Dist(o) <= Dist(q)
        best_foods == {o \in viable_options :
                         Rate(o) = Rate(first) /\ Dist(o) = Dist(first)}
    IN IF viable_options = {} THEN {NoPlant} ELSE best_foods

\* HominidAgent.evaluate_cell_prospects (times 100: visibility is a percentage)
evaluate_cell_prospects(W, a, cell_pos, season) ==
    LET ag == W.agents[a]
        eligible == {sid \in get_available_food(W.food[cell_pos], season) :
                        can_be_eaten_by(plant_species[sid], ag.species, ag.can_dig)}
        RECURSIVE Total(_)
        Total(S) == IF S = {} THEN 0
                    ELSE LET sid == CHOOSE x \in S : TRUE
                         IN return_rate(plant_species[sid])
                              * plant_species[sid].visibility_probability
                            + Total(S \ {sid})
    IN Total(eligible)

Sign(d) == IF d = 0 THEN 0 ELSE IF d > 0 THEN 1 ELSE -1

\* HominidAgent._wander_to_distant_cell: the worlds the choice of a target leaves
wander_to_distant_cell(W, a) ==
    LET ag == W.agents[a]
        wander_dist == params.wandering_distance
        distant_cells ==
            {<<(ag.pos[1] + dx) % params.grid_width, (ag.pos[2] + dy) % params.grid_height>> :
                <<dx, dy>> \in {d \in (-wander_dist..wander_dist) \X (-wander_dist..wander_dist) :
                                  ~(Abs(d[1]) < wander_dist /\ Abs(d[2]) < wander_dist)}}
        Shorter(d, size) == IF 2 * Abs(d) > size THEN -Sign(d) * (size - Abs(d)) ELSE d
        NewPos(target) ==
            LET dx == Shorter(target[1] - ag.pos[1], params.grid_width)
                dy == Shorter(target[2] - ag.pos[2], params.grid_height)
            IN <<(ag.pos[1] + Sign(dx)) % params.grid_width,
                 (ag.pos[2] + Sign(dy)) % params.grid_height>>
    IN {[move_agent(W, a, NewPos(target)) EXCEPT
            !.agents[a] = log_activity(@, NewPos(target), "traveling")] :
        target \in distant_cells}

\* HominidAgent.move_toward_food: the worlds the random choices can leave
move_toward_food(W, a, season) ==
    LET ag == W.agents[a]
        neighbors == get_neighborhood(ag.pos)
        Value(c) == evaluate_cell_prospects(W, a, c, season)
        Dist(c) == calculate_distance(ag.pos, c)
        best_value == IF neighbors = {} THEN 0
                      ELSE Max(0, CHOOSE v \in {Value(c) : c \in neighbors} :
                                     \A c \in neighbors : Value(c) <= v)
        top == {c \in neighbors : Value(c) = best_value}
        best_cells == {c \in top : \A q \in top : Dist(c) <= Dist(q)}
    IN IF best_value > 0
       THEN {IF chosen # ag.pos
             THEN [move_agent(W, a, chosen) EXCEPT
                      !.agents[a] = log_activity(@, chosen, "traveling")]
             ELSE W : chosen \in best_cells}
       ELSE wander_to_distant_cell(W, a)

\* The position of a cell in "for x in range(width): for y in range(height)"
CellIndex(cell) == cell[1] * params.grid_height + cell[2] + 1

\* HominidAgent._find_individual_nest_site
find_individual_nest_site(W, a) ==
    LET ag == W.agents[a]
        Distance(c) == Abs(c[1] - ag.pos[1]) + Abs(c[2] - ag.pos[2])
        sites == {c \in Cells :
                    /\ Distance(c) <= params.nest_scan_distance
                    /\ \E sid \in SpeciesIds :
                          plant_species[sid].is_nesting_tree /\ W.food[c][sid] > 0}
    IN IF sites = {} THEN NoPos
       ELSE CHOOSE c \in sites :
               \A q \in sites :
                   \/ Distance(c) < Distance(q)
                   \/ Distance(c) = Distance(q) /\ CellIndex(c) <= CellIndex(q)

\* HominidAgent._find_group_nest_site
find_group_nest_site(W, a) ==
    LET ag == W.agents[a]
        other_agents == {b \in DOMAIN W.agents :
                            W.agents[b].species = ag.species /\ b # a}
        Count(pos) == Cardinality({b \in other_agents : W.agents[b].pos = pos})
        threshold == (Cardinality(other_agents)
                        * params.boisei_group_nesting_agent_threshold) \div 100
        suitable_cells == {W.agents[b].pos : b \in {x \in other_agents :
                                                Count(W.agents[x].pos) >= threshold}}
        \* the dict keeps the cells in the order of their first agent
        Order(pos) == CHOOSE b \in other_agents :
                         /\ W.agents[b].pos = pos
                         /\ \A x \in other_agents : W.agents[x].pos = pos => b <= x
        Distance(c) == Abs(c[1] - ag.pos[1]) + Abs(c[2] - ag.pos[2])
    IN IF other_agents = {} THEN find_individual_nest_site(W, a)
       ELSE IF suitable_cells # {}
       THEN CHOOSE c \in suitable_cells :
               \A q \in suitable_cells :
                   \/ Distance(c) < Distance(q)
                   \/ Distance(c) = Distance(q) /\ Order(c) <= Order(q)
       ELSE find_individual_nest_site(W, a)

\* HominidAgent.find_nest_site
find_nest_site(W, a) ==
    IF W.agents[a].group_nesting THEN find_group_nest_site(W, a)
    ELSE find_individual_nest_site(W, a)

\* HominidAgent.is_nesting_time
is_nesting_time(ag) == ag.active_time_remaining <= params.extra_nesting_steps

\* check_starvation counting the days at or below the threshold
check_starvation_inclusive(ag) ==
    LET n == diet_track_length(ag)
        h == ag.calories_history
    IN /\ Len(h) >= n
       /\ \A i \in (Len(h) - n + 1)..Len(h) :
              h[i] * 100 <= daily_calorie_requirement(ag) * diet_threshold(ag)

\* HominidAgent.check_starvation.  threshold_calories is requirement * threshold,
\* the threshold a percentage: day_cal < threshold_calories is compared times 100.
check_starvation(ag) ==
    LET n == diet_track_length(ag)
        h == ag.calories_history
        recent_days == IF n = 0 THEN h ELSE SubSeq(h, Len(h) - n + 1, Len(h))   \* h[-n:]
        starving_days ==
            Cardinality({i \in DOMAIN recent_days :
                recent_days[i] * 100 < daily_calorie_requirement(ag) * diet_threshold(ag)})
    IN IF Len(h) < n THEN FALSE ELSE starving_days >= n

\* HominidAgent.step from line 278 on, for one outcome of the detection draws:
\* the worlds the remaining random choices can leave
forage(W, list, a, food_options, season, day) ==
    LET scanned == scan_for_carcasses(W, list, a)
        called_carcass == check_for_carcass_calls(W, a)
        carcass_options == IF called_carcass # NoCarcass /\ called_carcass \notin Range(scanned)
                           THEN Append(scanned, called_carcass) ELSE scanned
        best_plants == IF food_options # {} THEN choose_best_food(W, a, food_options)
                       ELSE {NoPlant}
        best_carcass == IF carcass_options # <<>> THEN choose_best_carcass(W, carcass_options)
                        ELSE NoCarcass
        meat_return == params.carcass_calories_per_gram
                         * params.carcass_grams_eaten_per_unit_time
        EatPlant(bp) == eat_food(move_to_plant_cell(W, a, bp[2]), a, bp[1], season, day)
        Act(bp) ==
            IF bp # NoPlant /\ best_carcass # NoCarcass
            THEN IF meat_return > return_rate(plant_species[bp[1]])
                 THEN {scavenge_carcass(W, a, best_carcass, season, day)}
                 ELSE {EatPlant(bp)}
            ELSE IF bp # NoPlant THEN {EatPlant(bp)}
            ELSE IF best_carcass # NoCarcass
            THEN {scavenge_carcass(W, a, best_carcass, season, day)}
            ELSE move_toward_food(W, a, season)
    IN {[w EXCEPT !.agents[a].active_time_remaining = @ - 1] :
            w \in UNION {Act(bp) : bp \in best_plants}}

\* A turn whose nest branch moves the agent without marking it as nesting
agent_step_nest_unmarked(W, list, a, season, day) ==
    LET ag == W.agents[a]
        nest_site == IF is_nesting_time(ag) /\ ~ag.is_nesting THEN find_nest_site(W, a)
                     ELSE NoPos
    IN IF ag.active_time_remaining <= 0 THEN {W}
       ELSE IF nest_site # NoPos
       THEN {move_agent(W, a, nest_site)}
       ELSE UNION {forage(W, list, a, food_options, season, day) :
                      food_options \in scan_for_food(W, a, season)}

\* HominidAgent.step: the worlds one turn of agent a can leave
agent_step(W, list, a, season, day) ==
    LET ag == W.agents[a]
        nest_site == IF is_nesting_time(ag) /\ ~ag.is_nesting THEN find_nest_site(W, a)
                     ELSE NoPos
    IN IF ag.active_time_remaining <= 0 THEN {W}
       ELSE IF nest_site # NoPos
       THEN {[move_agent(W, a, nest_site) EXCEPT !.agents[a].is_nesting = TRUE,
                                                !.agents[a].nest_location = nest_site]}
       ELSE UNION {forage(W, list, a, food_options, season, day) :
                      food_options \in scan_for_food(W, a, season)}

(***************************************************************************)
(* hominids_model.py: HOMINIDSModel.                                       *)
(***************************************************************************)
\* The season with every boundary one day early
season_of_day_early(day) ==
    IF day < 90 THEN 1 ELSE IF day < 273 THEN 2 ELSE IF day < 334 THEN 3 ELSE 4

\* HOMINIDSModel._end_of_day, lines 1205-1217: the season of a day
season_of_day(day) ==
    IF day <= 90 THEN 1 ELSE IF day <= 273 THEN 2 ELSE IF day <= 334 THEN 3 ELSE 4

\* The clock rolling over one minute late (> instead of >=)
advance_clock_late(minute, day, season, active_time_units_per_day) ==
    LET minute1 == minute + 1
        rollover == minute1 > active_time_units_per_day
        day1 == IF rollover THEN day + 1 ELSE day
        day2 == IF rollover /\ day1 > 365 THEN 1 ELSE day1
    IN [ minute |-> IF rollover THEN 0 ELSE minute1,
         day |-> day2,
         season |-> IF rollover THEN IF day2 <= 90 THEN 1 ELSE IF day2 <= 273 THEN 2
                                     ELSE IF day2 <= 334 THEN 3 ELSE 4
                    ELSE season,
         rollover |-> rollover ]

\* HOMINIDSModel.step, lines 1161-1166, with the clock part of _end_of_day:
\* the clock after the step, and whether the day rolled over
advance_clock(minute, day, season, active_time_units_per_day) ==
    LET minute1 == minute + 1
        rollover == minute1 >= active_time_units_per_day
        day1 == IF rollover THEN day + 1 ELSE day
        day2 == IF rollover /\ day1 > 365 THEN 1 ELSE day1
    IN [ minute |-> IF rollover THEN 0 ELSE minute1,
         day |-> day2,
         season |-> IF rollover THEN season_of_day(day2) ELSE season,
         rollover |-> rollover ]


\* The daily reset leaving the gut as it was
end_of_day_agent_keeping_gut(ag) ==
    [ag EXCEPT !.calories_history = Append(@, ag.calories_today),
               !.calories_today = 0,
               !.active_time_remaining = params.active_time_units_per_day,
               !.is_nesting = FALSE,
               !.nest_location = NoPos,
               !.ignored_carcasses = {},
               !.wait_timer = 0,
               !.waiting_at_carcass = NoCarcass]

\* The daily reset that drops the calories of the day without recording them
end_of_day_agent_unrecorded(ag) ==
    [ag EXCEPT !.calories_today = 0,
               !.gut_contents_grams = 0,
               !.active_time_remaining = params.active_time_units_per_day,
               !.is_nesting = FALSE,
               !.nest_location = NoPos,
               !.ignored_carcasses = {},
               !.wait_timer = 0,
               !.waiting_at_carcass = NoCarcass]

\* HOMINIDSModel._end_of_day, lines 1192-1203: the daily reset of one agent
end_of_day_agent(ag) ==
    [ag EXCEPT !.calories_history = Append(@, ag.calories_today),
               !.calories_today = 0,
               !.gut_contents_grams = 0,
               !.active_time_remaining = params.active_time_units_per_day,
               !.is_nesting = FALSE,
               !.nest_location = NoPos,
               !.ignored_carcasses = {},
               !.wait_timer = 0,
               !.waiting_at_carcass = NoCarcass]

\* HOMINIDSModel._update_plant_food
update_plant_food(food, season) ==
    [c \in DOMAIN food |-> update_food(food[c], c, season)]

World == [agents |-> hominid_agents, objs |-> carcass_objs,
          found |-> found_carcasses, food |-> cell_food]

NoProbe == [op |-> "none"]
NoRuns == <<>>

\* The start of a step that keeps the calls of the minute before
BeginStep_keeping_calls ==
    /\ pc = "idle"
    /\ steps < params.max_steps
    /\ agents_shuffled' \in Permutations_of(DOMAIN hominid_agents)
    /\ turns' = [a \in DOMAIN hominid_agents |-> 0]
    /\ pc' = "agents"
    /\ UNCHANGED <<params, plant_species, current_day, current_season, current_minute,
                   hominid_agents, cell_food, carcass_objs, carcasses, found_carcasses,
                   steps, probe, runs>>

\* HOMINIDSModel.step, lines 1142-1147: clear the calls, copy and shuffle the agents
BeginStep ==
    /\ pc = "idle"
    /\ steps < params.max_steps
    /\ found_carcasses' = <<>>
    /\ agents_shuffled' \in Permutations_of(DOMAIN hominid_agents)
    /\ turns' = [a \in DOMAIN hominid_agents |-> 0]
    /\ pc' = "agents"
    /\ UNCHANGED <<params, plant_species, current_day, current_season, current_minute,
                   hominid_agents, cell_food, carcass_objs, carcasses, steps, probe, runs>>

\* HOMINIDSModel.step, lines 1148-1149: the next agent of the shuffled order steps
AgentTurn ==
    /\ pc = "agents"
    /\ agents_shuffled # <<>>
    /\ LET a == Head(agents_shuffled)
       IN /\ \E w \in agent_step(World, carcasses, a, current_season, current_day) :
                /\ hominid_agents' = w.agents
                /\ carcass_objs' = w.objs
                /\ found_carcasses' = w.found
                /\ cell_food' = w.food
          /\ turns' = [turns EXCEPT ![a] = @ + 1]
    /\ agents_shuffled' = Tail(agents_shuffled)
    /\ UNCHANGED <<params, plant_species, current_day, current_season, current_minute,
                   carcasses, pc, steps, probe, runs>>

\* HOMINIDSModel.step, lines 1151-1166: after the last agent, the daily update at
\* minute 0, then the clock and the day rollover
EndStep ==
    /\ pc = "agents"
    /\ agents_shuffled = <<>>
    /\ IF current_minute = 0
       THEN /\ \E draw \in SpawnDraws(carcass_objs) :
                 LET new == check_for_new_carcasses(carcass_objs, carcasses, draw)
                     objs == update_carcass_agents(new.objs, new.list, hominid_agents)
                 IN /\ carcass_objs' = objs
                    /\ carcasses' = remove_depleted_carcasses(objs, new.list)
            /\ cell_food' = update_plant_food(cell_food, current_season)
       ELSE UNCHANGED <<carcass_objs, carcasses, cell_food>>
    /\ LET clock == advance_clock(current_minute, current_day, current_season,
                                  params.active_time_units_per_day)
       IN /\ current_minute' = clock.minute
          /\ current_day' = clock.day
          /\ current_season' = clock.season
          /\ hominid_agents' = IF clock.rollover
                               THEN [a \in DOMAIN hominid_agents |->
                                        end_of_day_agent(hominid_agents[a])]
                               ELSE hominid_agents
    /\ steps' = steps + 1
    /\ pc' = "idle"
    /\ UNCHANGED <<params, plant_species, found_carcasses, agents_shuffled, turns,
                   probe, runs>>

\* HOMINIDSModel.__init__: the state after construction for parameters p, a
\* catalog and a roster; random placement puts each agent on any cell.
InitModel(p, catalog, n_boisei, boisei_options, n_ergaster, ergaster_options) ==
    /\ params = p
    /\ plant_species = catalog
    /\ current_day = 1
    /\ current_season = 1
    /\ current_minute = 0
    /\ \E place \in [1..(n_boisei + n_ergaster) -> Cells] :
          hominid_agents =
              [a \in 1..(n_boisei + n_ergaster) |->
                  IF a <= n_boisei
                  THEN HominidAgent("boisei", parse_agent_options(boisei_options), place[a])
                  ELSE HominidAgent("ergaster", parse_agent_options(ergaster_options),
                                    place[a])]
    /\ cell_food = [c \in Cells |-> [sid \in DOMAIN catalog |-> initial_food_amount(c, sid)]]
    /\ carcass_objs = <<>>
    /\ carcasses = <<>>
    /\ found_carcasses = <<>>
    /\ pc = "idle"
    /\ agents_shuffled = <<>>
    /\ steps = 0
    /\ turns = [a \in 1..(n_boisei + n_ergaster) |-> 0]
    /\ probe = NoProbe
    /\ runs = NoRuns

(***************************************************************************)
(* The foraging world explored by Spec: a ring of GridWidth cells (a       *)
(* torus of height 1), a short day, one agent of each species, two plant   *)
(* species, light carcasses and a small gut (255 and 305 grams, which no   *)
(* whole number of bites fills), so that a few steps reach a full gut, a   *)
(* depleted carcass and a day rollover.                                    *)
(***************************************************************************)
GridWidth == 2
DayLength == 3
MaxSteps == 4
MaxCarcasses == 1

\* A fruit (any season, seen half of the time) and a tuber that needs tools,
\* fruits in season 1 only and is a nesting tree (always seen).
WorldCatalog ==
    << [ disabled |-> FALSE, tools_required |-> FALSE, has_digging_phase |-> FALSE,
         edible_by_boisei |-> TRUE, edible_by_ergaster |-> TRUE,
         plants_per_channel |-> 0, plants_per_flooded |-> 0,
         plants_per_unflooded |-> 200 * OneUnit,
         is_nesting_tree |-> FALSE, seasons_fruiting |-> <<TRUE, TRUE, TRUE, TRUE>>,
         grams_per_feeding_unit |-> 100, calories_per_gram |-> 2,
         visibility_probability |-> 50, handling_time_minutes |-> 1 ],
       [ disabled |-> FALSE, tools_required |-> TRUE, has_digging_phase |-> TRUE,
         edible_by_boisei |-> TRUE, edible_by_ergaster |-> TRUE,
         plants_per_channel |-> 100 * OneUnit, plants_per_flooded |-> 0,
         plants_per_unflooded |-> 0,
         is_nesting_tree |-> TRUE, seasons_fruiting |-> <<TRUE, FALSE, FALSE, FALSE>>,
         grams_per_feeding_unit |-> 150, calories_per_gram |-> 3,
         visibility_probability |-> 100, handling_time_minutes |-> 1 ] >>

WorldParams ==
    [DefaultParams EXCEPT
        !.grid_width = GridWidth,
        !.landscape_grid = [c \in (0..(GridWidth - 1)) \X {0} |->
                               IF c = <<0, 0>> THEN "CHANNEL" ELSE "UNFLOODED"],
        !.active_time_units_per_day = DayLength,
        !.extra_nesting_steps = 1,
        !.boisei_belly_capacity_grams = 255,
        !.ergaster_belly_capacity_grams = 305,
        !.carcass_grams_eaten_per_unit_time = 60,
        !.carcass_calories_per_gram = 5,
        !.small_carcass_weight_grams = 100,
        !.medium_carcass_weight_grams = 200,
        !.large_carcass_weight_grams = 400,
        !.max_steps = MaxSteps,
        !.max_carcasses = MaxCarcasses]

Init == InitModel(WorldParams, WorldCatalog, 1, {"i", "d", "m"}, 1, {"g", "m", "c"})

Next == BeginStep \/ AgentTurn \/ EndStep

Spec == Init /\ [][Next]_vars

(***************************************************************************)
(* Properties of the foraging world (Spec).                                *)
(***************************************************************************)

\* C1: every agent's gut contents are at least 0 and at most its species'
\* belly capacity, after every agent turn and every model step.
GutWithinCapacity ==
    \A a \in DOMAIN hominid_agents :
        /\ hominid_agents[a].gut_contents_grams >= 0
        /\ hominid_agents[a].gut_contents_grams <= belly_capacity_grams(hominid_agents[a])

\* An agent whose last bite was cut down to the room left: its gut is exactly
\* full, and the capacity is no sum of whole feeding units and meat portions
\* (these are all multiples of 10 grams in this world).
GutFilledByCappedBite ==
    \E a \in DOMAIN hominid_agents :
        /\ hominid_agents[a].gut_contents_grams = belly_capacity_grams(hominid_agents[a])
        /\ belly_capacity_grams(hominid_agents[a]) % 10 # 0
        /\ hominid_agents[a].calories_today > 0

\* C2: a carcass's remaining mass never increases, is never negative and never
\* exceeds its total mass; a carcass with no mass left is returned by
\* get_carcasses_in_range for no position, and (its mass never increasing) never
\* will be again.
CarcassMassBounded ==
    \A i \in DOMAIN carcass_objs :
        /\ carcass_objs[i].remaining_grams >= 0
        /\ carcass_objs[i].remaining_grams <= carcass_objs[i].weight_grams
        /\ carcass_objs[i].remaining_grams = 0 =>
              \A pos \in Cells :
                  i \notin Range(get_carcasses_in_range(carcass_objs, carcasses, pos,
                                                        params.carcass_detection_range))

CarcassMassNeverIncreases ==
    \A i \in DOMAIN carcass_objs :
        /\ i \in DOMAIN carcass_objs'
        /\ carcass_objs'[i].remaining_grams <= carcass_objs[i].remaining_grams
        /\ carcass_objs'[i].weight_grams = carcass_objs[i].weight_grams

CarcassMassMonotone == []CarcassMassBounded /\ [][CarcassMassNeverIncreases]_vars

\* A carcass eaten down to nothing that is still on the manager's active list
\* (the list is only cleaned at the daily update).
DepletedCarcassStillListed ==
    \E i \in Range(carcasses) :
        /\ carcass_objs[i].remaining_grams = 0
        /\ carcass_objs[i].weight_grams > 0

\* C8: in every model step each agent's turn is executed exactly once, one agent
\* at a time, in an order that is a permutation of the agents drawn for that step:
\* while the agents are being processed, exactly the agents already taken from the
\* order have had one turn and the others none; when the step ends every agent has
\* had exactly one.
EachAgentOncePerStep ==
    /\ pc = "agents" =>
          /\ \A i, j \in DOMAIN agents_shuffled :
                i # j => agents_shuffled[i] # agents_shuffled[j]
          /\ Range(agents_shuffled) \subseteq DOMAIN hominid_agents
          /\ \A a \in DOMAIN hominid_agents :
                turns[a] = IF a \in Range(agents_shuffled) THEN 0 ELSE 1
    /\ (pc = "idle" /\ steps > 0) =>
          \A a \in DOMAIN hominid_agents : turns[a] = 1

\* In the middle of a step whose order is not the creation order: the second
\* agent has had its turn and the first is still to come.
SecondAgentWentFirst ==
    /\ pc = "agents"
    /\ agents_shuffled = <<1>>
    /\ turns = <<0, 1>>
    /\ steps > 0

(***************************************************************************)
(* The clock (SpecClock): the model with the default parameters (720       *)
(* active minutes a day), an empty catalog and no agents, stepped for      *)
(* ClockDays days, a year and a day, so that the day wraps from 365 to 1.  *)
(***************************************************************************)
ClockDays == 366

ClockParams ==
    [DefaultParams EXCEPT
        !.max_steps = ClockDays * DefaultParams.active_time_units_per_day]

InitClock == InitModel(ClockParams, <<>>, 0, {}, 0, {})

NextClock == BeginStep \/ EndStep

SpecClock == InitClock /\ [][NextClock]_vars

\* C9: at every step boundary the minute of day is between 0 and the active
\* minutes per day, the day of year is between 1 and 365, and the season is the
\* fixed function of the day: 1-90 -> 1, 91-273 -> 2, 274-334 -> 3, 335-365 -> 4.
ClockWithinRanges ==
    /\ current_minute \in 0..params.active_time_units_per_day
    /\ current_day \in 1..365
    /\ current_season = (CASE current_day \in 1..90 -> 1
                           [] current_day \in 91..273 -> 2
                           [] current_day \in 274..334 -> 3
                           [] current_day \in 335..365 -> 4)

\* The last minute of the last day of the year, in season 4.
LastMinuteOfYear ==
    /\ pc = "idle"
    /\ current_day = 365
    /\ current_season = 4
    /\ current_minute = params.active_time_units_per_day - 1

\* C10: starting at minute 0 of day 1, after n steps the minute is n modulo the
\* active minutes per day (720) and the day has advanced once per 720 steps,
\* wrapping from 365 to 1: exactly 720 steps from minute 0 advance the day by one
\* and return the minute to 0, and fewer never advance the day.
DayAdvancesEvery720Steps ==
    /\ params.active_time_units_per_day = 720
    /\ current_minute = steps % params.active_time_units_per_day
    /\ current_day = ((steps \div params.active_time_units_per_day) % 365) + 1

\* The year has wrapped: 365 * 720 steps have brought the clock back to minute 0
\* of day 1.
YearWrapped ==
    /\ steps = 365 * 720
    /\ current_day = 1
    /\ current_minute = 0

(***************************************************************************)
(* Waiting at a carcass (SpecCoop): the default parameters (3 agents       *)
(* required, 720 minutes a day) on a single cell without plants, with two  *)
(* cooperating meat-eating boisei and one plant-eating ergaster.  The      *)
(* three agents stand on the cell of the carcass the first daily update    *)
(* creates, so a medium or large carcass lists 3 agents present and the    *)
(* boisei, 2 of the 3 required, choose it every minute.                    *)
(***************************************************************************)
CoopMaxSteps == 14

CoopParams ==
    [DefaultParams EXCEPT !.max_steps = CoopMaxSteps, !.max_carcasses = 1]

InitCoop == InitModel(CoopParams, <<>>, 2, {"i", "m", "c"}, 1, {"i"})

SpecCoop == InitCoop /\ [][Next]_vars

\* C3: a cooperating agent that waits at an under-threshold medium or large
\* carcass and chooses it again in the minute its wait timer has run out (0),
\* with fewer agents of its species there than required, puts the carcass on its
\* ignore set in that turn and stops waiting.
WaitExpiryStep(a) ==
    LET ag == hominid_agents[a]
        cid == ag.waiting_at_carcass
    IN (/\ turns'[a] = turns[a] + 1
        /\ ag.cooperates
        /\ cid # NoCarcass
        /\ ag.wait_timer = 0
        /\ ag.active_time_remaining > 0
        /\ carcass_objs[cid].size # "small"
        /\ choose_best_carcass(World, scan_for_carcasses(World, carcasses, a)) = cid
        /\ n_agents_at(World, a, cid) < params.number_of_agents_for_carcass)
       => (/\ cid \in hominid_agents'[a].ignored_carcasses
           /\ hominid_agents'[a].waiting_at_carcass = NoCarcass)

ExpiredWaitIgnoresCarcass ==
    [][\A a \in DOMAIN hominid_agents : WaitExpiryStep(a)]_vars

(***************************************************************************)
(* Plant abundance over the seasons (SpecPlant): one cell and one plant    *)
(* species that fruits in season 1 only, followed day by day for           *)
(* PlantMaxDays days, into season 2.  The agents are reduced to what they  *)
(* do to the cell: any number of bites a day, each removing one plant from *)
(* a species that is available (fruiting, with a positive amount).  The    *)
(* cell is unflooded (3 plants) or flooded (no plants of the species).     *)
(***************************************************************************)
PlantMaxDays == 100

PlantCatalog ==
    << [ disabled |-> FALSE, tools_required |-> FALSE, has_digging_phase |-> FALSE,
         edible_by_boisei |-> TRUE, edible_by_ergaster |-> TRUE,
         plants_per_channel |-> 0, plants_per_flooded |-> 0,
         plants_per_unflooded |-> 3 * OneUnit,
         is_nesting_tree |-> FALSE, seasons_fruiting |-> <<TRUE, FALSE, FALSE, FALSE>>,
         grams_per_feeding_unit |-> 100, calories_per_gram |-> 2,
         visibility_probability |-> 50, handling_time_minutes |-> 1 ] >>

PlantParams(zone) ==
    [DefaultParams EXCEPT
        !.landscape_grid = [c \in {<<0, 0>>} |-> zone],
        !.max_steps = PlantMaxDays * DefaultParams.active_time_units_per_day]

InitPlant ==
    \E zone \in {"UNFLOODED", "FLOODED"} :
        InitModel(PlantParams(zone), PlantCatalog, 0, {}, 0, {})

\* HominidAgent.eat_food, line 686, seen from the cell: some agent takes a bite of
\* an available species
PlantBite ==
    /\ pc = "idle"
    /\ steps < params.max_steps
    /\ \E c \in Cells : \E sid \in get_available_food(cell_food[c], current_season) :
          cell_food' = [cell_food EXCEPT ![c] = consume_food(@, sid, OneUnit)]
    /\ UNCHANGED <<params, plant_species, current_day, current_season, current_minute,
                   hominid_agents, carcass_objs, carcasses, found_carcasses, pc,
                   agents_shuffled, steps, turns, probe, runs>>

\* HOMINIDSModel.step over one day, seen from the cell: the daily update of the
\* step at minute 0 (line 1153), then the steps up to the rollover (lines 1162-1166)
PlantDay ==
    /\ pc = "idle"
    /\ current_minute = 0
    /\ steps < params.max_steps
    /\ cell_food' = update_plant_food(cell_food, current_season)
    /\ LET clock == advance_clock(params.active_time_units_per_day - 1, current_day,
                                  current_season, params.active_time_units_per_day)
       IN /\ current_minute' = clock.minute
          /\ current_day' = clock.day
          /\ current_season' = clock.season
    /\ steps' = steps + params.active_time_units_per_day
    /\ UNCHANGED <<params, plant_species, hominid_agents, carcass_objs, carcasses,
                   found_carcasses, pc, agents_shuffled, turns, probe, runs>>

NextPlant == PlantBite \/ PlantDay

SpecPlant == InitPlant /\ [][NextPlant]_vars

FoodFloor(c, sid) == (max_food_amount(c, sid) * params.initial_food_percentage) \div 100
FoodCeiling(c, sid) == (max_food_amount(c, sid) * params.final_food_percentage) \div 100

\* C4 as stated: whatever the abundance before it, a daily update leaves the
\* abundance between capacity * initialFoodFraction and capacity * finalFoodFraction.
UpdateKeepsFoodInBand ==
    [][steps' # steps =>
          \A c \in Cells : \A sid \in SpeciesIds :
              /\ cell_food'[c][sid] <= FoodCeiling(c, sid)
              /\ cell_food'[c][sid] >= FoodFloor(c, sid)]_vars

\* C4: a daily update leaves the abundance at most capacity * finalFoodFraction;
\* it leaves it at least capacity * initialFoodFraction when the species is not
\* fruiting, or the abundance before the update was 0 or was not below that
\* floor; and it never leaves it below both the floor and the abundance before.
UpdateKeepsFoodInBandFromFloor ==
    [][steps' # steps =>
          \A c \in Cells : \A sid \in SpeciesIds :
              /\ cell_food'[c][sid] <= FoodCeiling(c, sid)
              /\ (\/ ~plant_species[sid].seasons_fruiting[current_season]
                  \/ cell_food[c][sid] = 0
                  \/ cell_food[c][sid] >= FoodFloor(c, sid))
                 => cell_food'[c][sid] >= FoodFloor(c, sid)
              /\ cell_food'[c][sid] >= Min(cell_food[c][sid], FoodFloor(c, sid))]_vars

\* The second day of season 2, after an update outside the fruiting season, with
\* an abundance still decaying between the floor and the ceiling.
FoodDecayingInSeasonTwo ==
    /\ current_day = 92
    /\ current_season = 2
    /\ \E c \in Cells : \E sid \in SpeciesIds :
          /\ cell_food[c][sid] > FoodFloor(c, sid)
          /\ cell_food[c][sid] < FoodCeiling(c, sid)

(***************************************************************************)
(* Two runs with the same seed (SpecSeed).  A random generator is a state  *)
(* in 0..RngPeriod-1: a draw returns the state and advances it, seeding    *)
(* sets it, and a generator created without a seed starts from the         *)
(* system's entropy, that is anywhere.  A run has two generators: the      *)
(* module-level one of `random` (global_rng), which HOMINIDSModel.__init__ *)
(* seeds, and the model's own self.random (model_rng), which the base      *)
(* class creates in super().__init__() without a seed and from which every *)
(* draw of the program is made.  Each run has one boisei on a ring without *)
(* plants; no carcass appears (max_carcasses is 0).                        *)
(***************************************************************************)
RngPeriod == 8
MaxSeed == 2
SeedMaxSteps == 3

RngStates == 0..(RngPeriod - 1)

\* random.Random: the state after one draw
rng_next(s) == (5 * s + 3) % RngPeriod

\* random.seed(random_seed)
rng_seeded(random_seed) == random_seed % RngPeriod

\* HominidAgent._wander_to_distant_cell, lines 848-857: the offsets of distant_cells
\* in the order of the two loops
distant_offsets ==
    LET w == params.wandering_distance
        n == 2 * w + 1
        all == [i \in 1..(n * n) |-> <<((i - 1) \div n) - w, ((i - 1) % n) - w>>]
        Far(d) == ~(Abs(d[1]) < w /\ Abs(d[2]) < w)
    IN SelectSeq(all, Far)

\* HominidAgent._wander_to_distant_cell, lines 859-879, for the draw k of
\* random.choice: the position after the move
wander_choice(pos, k) ==
    LET d == distant_offsets[(k % Len(distant_offsets)) + 1]
        target == <<(pos[1] + d[1]) % params.grid_width,
                    (pos[2] + d[2]) % params.grid_height>>
        Shorter(x, size) == IF 2 * Abs(x) > size THEN -Sign(x) * (size - Abs(x)) ELSE x
        dx == Shorter(target[1] - pos[1], params.grid_width)
        dy == Shorter(target[2] - pos[2], params.grid_height)
    IN <<(pos[1] + Sign(dx)) % params.grid_width,
         (pos[2] + Sign(dy)) % params.grid_height>>

SeedParams ==
    [DefaultParams EXCEPT
        !.grid_width = GridWidth,
        !.landscape_grid = [c \in (0..(GridWidth - 1)) \X {0} |-> "UNFLOODED"],
        !.max_steps = SeedMaxSteps]

\* Two processes about to construct the model with the same random_seed
InitSeed ==
    /\ params = SeedParams
    /\ plant_species = <<>>
    /\ current_day = 1
    /\ current_season = 1
    /\ current_minute = 0
    /\ hominid_agents = <<>>
    /\ cell_food = [c \in Cells |-> <<>>]
    /\ carcass_objs = <<>>
    /\ carcasses = <<>>
    /\ found_carcasses = <<>>
    /\ pc = "idle"
    /\ agents_shuffled = <<>>
    /\ steps = 0
    /\ turns = <<>>
    /\ probe = NoProbe
    /\ \E random_seed \in 0..MaxSeed : \E entropy \in [1..2 -> RngStates] :
          runs = [r \in 1..2 |->
                     [ built |-> FALSE, random_seed |-> random_seed,
                       global_rng |-> entropy[r], model_rng |-> 0,
                       pos |-> NoPos, minute |-> 0, traveled |-> 0 ]]

\* HOMINIDSModel.__init__, lines 1014-1019 and 1041 (_create_agents, lines
\* 1092-1094): the base class creates self.random unseeded, random_seed (if not
\* 0 or None) seeds the module-level generator, the agent is placed with two
\* draws of self.random
Construct(r) ==
    /\ ~runs[r].built
    /\ \E entropy \in RngStates :
          LET run == runs[r]
              x == entropy % params.grid_width
              y == rng_next(entropy) % params.grid_height
          IN runs' = [runs EXCEPT ![r] =
                 [run EXCEPT !.built = TRUE,
                             !.global_rng = IF run.random_seed # 0
                                            THEN rng_seeded(run.random_seed) ELSE @,
                             !.model_rng = rng_next(rng_next(entropy)),
                             !.pos = <<x, y>>]]
    /\ UNCHANGED <<params, plant_species, current_day, current_season, current_minute,
                   hominid_agents, cell_food, carcass_objs, carcasses, found_carcasses,
                   pc, agents_shuffled, steps, turns, probe>>

\* HOMINIDSModel.step of run r: the agent, finding no food, wanders to the cell
\* self.random.choice picks; at minute 0 check_for_new_carcasses draws once per cell
RunStep(r) ==
    /\ runs[r].built
    /\ runs[r].minute < params.max_steps
    /\ LET run == runs[r]
           pos == wander_choice(run.pos, run.model_rng)
           after_agent == rng_next(run.model_rng)
           RECURSIVE Drawn(_, _)
           Drawn(s, n) == IF n = 0 THEN s ELSE Drawn(rng_next(s), n - 1)
       IN runs' = [runs EXCEPT ![r] =
              [run EXCEPT !.pos = pos,
                          !.traveled = @ + 1,
                          !.model_rng = IF run.minute = 0
                                        THEN Drawn(after_agent, Cardinality(Cells))
                                        ELSE after_agent,
                          !.minute = @ + 1]]
    /\ UNCHANGED <<params, plant_species, current_day, current_season, current_minute,
                   hominid_agents, cell_food, carcass_objs, carcasses, found_carcasses,
                   pc, agents_shuffled, steps, turns, probe>>

NextSeed == \E r \in 1..2 : Construct(r) \/ RunStep(r)

SpecSeed == InitSeed /\ [][NextSeed]_vars

\* C5: two runs constructed with the same configuration and the same seed, and
\* stepped the same number of times, have their agents at the same positions
\* (and so the same activity).
SameSeedSameRun ==
    (/\ runs[1].built /\ runs[2].built
     /\ runs[1].random_seed = runs[2].random_seed
     /\ runs[1].minute = runs[2].minute)
    => runs[1].pos = runs[2].pos

(***************************************************************************)
(* One scavenger (SpecSolo): the default parameters (small carcass 1000 g, *)
(* 1570 calories a gram, belly 4500 g), one meat-eating boisei on a ring   *)
(* of two cells without plants, and the one carcass the first daily update *)
(* may create.                                                             *)
(* The eating rate is the default 50 g a minute, or 30 or 300.             *)
(***************************************************************************)
SoloMaxSteps == 36

SoloRates == {30, 50, 300}

SoloParams(rate) ==
    [DefaultParams EXCEPT
        !.grid_width = 2,
        !.landscape_grid = [c \in {<<0, 0>>, <<1, 0>>} |-> "UNFLOODED"],
        !.carcass_grams_eaten_per_unit_time = rate,
        !.max_steps = SoloMaxSteps,
        !.max_carcasses = 1]

InitSolo == \E rate \in SoloRates : InitModel(SoloParams(rate), <<>>, 1, {"i", "m"}, 0, {})

SpecSolo == InitSolo /\ [][Next]_vars

\* The minutes the agent has spent eating (activity_log, over all cells) and the
\* calories it has from carcasses
minutes_eating(ag) ==
    LET keys == {k \in DOMAIN ag.activity_log : k[2] = "eating"}
        RECURSIVE Total(_)
        Total(S) == IF S = {} THEN 0
                    ELSE LET k == CHOOSE x \in S : TRUE
                         IN ag.activity_log[k] + Total(S \ {k})
    IN Total(keys)

CeilDiv(m, r) == (m + r - 1) \div r

\* C6: a single meat-eater eating alone from a small carcass of mass M at rate R
\* removes min(R, remaining) every minute: after n minutes of eating M - R*n is
\* left (0 at the end), the carcass is depleted after exactly ceil(M / R) minutes,
\* one for every step since it appeared, and the calories gained are the mass
\* eaten times the calories per gram; for M = 1000, R = 50 and 1570 calories a
\* gram, 20 minutes and 1,570,000 calories.
SoloScavengingArithmetic ==
    \A i \in DOMAIN carcass_objs :
        carcass_objs[i].size = "small" =>
            LET M == carcass_objs[i].weight_grams
                R == params.carcass_grams_eaten_per_unit_time
                remaining == carcass_objs[i].remaining_grams
                ag == hominid_agents[1]
                n == minutes_eating(ag)
            IN /\ remaining = Max(0, M - R * n)
               /\ n <= CeilDiv(M, R)
               /\ remaining = 0 <=> n = CeilDiv(M, R)
               /\ pc = "idle" => n = Min(steps - 1, CeilDiv(M, R))
               /\ SumSeq(ag.carcass_calories_by_season)
                     = (M - remaining) * params.carcass_calories_per_gram
               /\ (M = 1000 /\ R = 50 /\ remaining = 0) =>
                     /\ n = 20
                     /\ ag.calories_today = 1570000

\* The 1000 g carcass eaten up at 50 g a minute, 20 minutes after it appeared.
SmallCarcassEatenInTwentyMinutes ==
    /\ params.carcass_grams_eaten_per_unit_time = 50
    /\ steps = 21
    /\ \E i \in DOMAIN carcass_objs :
          /\ carcass_objs[i].size = "small"
          /\ carcass_objs[i].weight_grams = 1000
          /\ carcass_objs[i].remaining_grams = 0
    /\ minutes_eating(hominid_agents[1]) = 20
    /\ hominid_agents[1].calories_today = 1570000

(***************************************************************************)
(* Starvation (SpecStarve): one agent of either species with the default   *)
(* parameters (window 14 days, threshold 50% of 2500 or 3500 calories).    *)
(* A day of foraging is reduced to the calories it brings, one calorie     *)
(* below the threshold or exactly the threshold, and the end-of-day        *)
(* processing; check_starvation is called between days.                    *)
(***************************************************************************)
StarveMaxDays == 15

StarveParams ==
    [DefaultParams EXCEPT
        !.max_steps = StarveMaxDays * DefaultParams.active_time_units_per_day]

InitStarve ==
    \/ InitModel(StarveParams, <<>>, 1, {"i"}, 0, {})
    \/ InitModel(StarveParams, <<>>, 0, {}, 1, {"i"})

\* The calories of a day: just below the starvation threshold, or exactly on it
StarveCalories(ag) ==
    LET threshold_calories == (daily_calorie_requirement(ag) * diet_threshold(ag)) \div 100
    IN {threshold_calories - 1, threshold_calories}

\* A day of HOMINIDSModel.step seen from the calorie ledger: the agent gathers
\* calories_today, then the rollover with _end_of_day (lines 1162-1166, 1192-1203)
StarveDay ==
    /\ pc = "idle"
    /\ steps < params.max_steps
    /\ \E cal \in StarveCalories(hominid_agents[1]) :
          hominid_agents' = [a \in DOMAIN hominid_agents |->
              end_of_day_agent([hominid_agents[a] EXCEPT !.calories_today = cal])]
    /\ LET clock == advance_clock(params.active_time_units_per_day - 1, current_day,
                                  current_season, params.active_time_units_per_day)
       IN /\ current_minute' = clock.minute
          /\ current_day' = clock.day
          /\ current_season' = clock.season
    /\ steps' = steps + params.active_time_units_per_day
    /\ probe' = NoProbe
    /\ UNCHANGED <<params, plant_species, cell_food, carcass_objs, carcasses,
                   found_carcasses, pc, agents_shuffled, turns, runs>>

\* A call of HominidAgent.check_starvation
StarveCheck ==
    /\ pc = "idle"
    /\ \E a \in DOMAIN hominid_agents :
          probe' = [op |-> "check_starvation", agent |-> a,
                    result |-> check_starvation(hominid_agents[a])]
    /\ UNCHANGED <<params, plant_species, current_day, current_season, current_minute,
                   hominid_agents, cell_food, carcass_objs, carcasses, found_carcasses,
                   pc, agents_shuffled, steps, turns, runs>>

NextStarve == StarveDay \/ StarveCheck

SpecStarve == InitStarve /\ [][NextStarve]_vars

\* C7: check_starvation is true exactly when at least `window` days are recorded
\* and every one of the last `window` daily totals is strictly below
\* dailyRequirement * dietThreshold.
StarvationIffWindowBelowThreshold ==
    probe.op = "check_starvation" =>
        LET ag == hominid_agents[probe.agent]
            h == ag.calories_history
            window == diet_track_length(ag)
        IN probe.result <=>
              /\ Len(h) >= window
              /\ \A i \in (Len(h) - window + 1)..Len(h) :
                    h[i] * 100 < daily_calorie_requirement(ag) * diet_threshold(ag)

\* check_starvation has answered true for an agent with one more day recorded
\* than the window, whose first day was not below the threshold.
StarvingAfterOneGoodDay ==
    /\ probe.op = "check_starvation"
    /\ probe.result
    /\ LET ag == hominid_agents[probe.agent]
       IN /\ Len(ag.calories_history) = diet_track_length(ag) + 1
          /\ ag.calories_history[1] * 100
                >= daily_calorie_requirement(ag) * diet_threshold(ag)

(***************************************************************************)
(* Choosing what to eat (SpecForage): one digging, meat-eating boisei on a *)
(* ring of three cells (a channel cell and two unflooded cells, each in    *)
(* the neighbourhood of the others), a short day, light carcasses and a    *)
(* small gut.  Two plant species of the unflooded cells return 300         *)
(* calories a minute, as much as meat (5 calories a gram, 60 grams a       *)
(* minute), and the first is a nesting tree; a tuber of the channel returns   *)
(* 450 and is seen half of the time.  The last two active minutes of the   *)
(* day are nesting time.                                                   *)
(***************************************************************************)
ForageMaxSteps == 4

ForageCatalog ==
    << [ disabled |-> FALSE, tools_required |-> FALSE, has_digging_phase |-> FALSE,
         edible_by_boisei |-> TRUE, edible_by_ergaster |-> TRUE,
         plants_per_channel |-> 0, plants_per_flooded |-> 0,
         plants_per_unflooded |-> 200 * OneUnit,
         is_nesting_tree |-> TRUE, seasons_fruiting |-> <<TRUE, TRUE, TRUE, TRUE>>,
         grams_per_feeding_unit |-> 100, calories_per_gram |-> 3,
         visibility_probability |-> 100, handling_time_minutes |-> 1 ],
       [ disabled |-> FALSE, tools_required |-> FALSE, has_digging_phase |-> FALSE,
         edible_by_boisei |-> TRUE, edible_by_ergaster |-> TRUE,
         plants_per_channel |-> 0, plants_per_flooded |-> 0,
         plants_per_unflooded |-> 200 * OneUnit,
         is_nesting_tree |-> FALSE, seasons_fruiting |-> <<TRUE, TRUE, TRUE, TRUE>>,
         grams_per_feeding_unit |-> 150, calories_per_gram |-> 2,
         visibility_probability |-> 100, handling_time_minutes |-> 1 ],
       [ disabled |-> FALSE, tools_required |-> TRUE, has_digging_phase |-> TRUE,
         edible_by_boisei |-> TRUE, edible_by_ergaster |-> TRUE,
         plants_per_channel |-> 100 * OneUnit, plants_per_flooded |-> 0,
         plants_per_unflooded |-> 0,
         is_nesting_tree |-> FALSE, seasons_fruiting |-> <<TRUE, FALSE, FALSE, FALSE>>,
         grams_per_feeding_unit |-> 150, calories_per_gram |-> 3,
         visibility_probability |-> 50, handling_time_minutes |-> 1 ] >>

ForageParams ==
    [DefaultParams EXCEPT
        !.grid_width = 3,
        !.landscape_grid = [c \in {<<0, 0>>, <<1, 0>>, <<2, 0>>} |->
                               IF c = <<0, 0>> THEN "CHANNEL" ELSE "UNFLOODED"],
        !.active_time_units_per_day = DayLength,
        !.extra_nesting_steps = 2,
        !.boisei_belly_capacity_grams = 255,
        !.carcass_grams_eaten_per_unit_time = 60,
        !.carcass_calories_per_gram = 5,
        !.small_carcass_weight_grams = 100,
        !.medium_carcass_weight_grams = 200,
        !.large_carcass_weight_grams = 400,
        !.max_steps = ForageMaxSteps,
        !.max_carcasses = 1]

InitForage == InitModel(ForageParams, ForageCatalog, 1, {"i", "d", "m"}, 0, {})

SpecForage == InitForage /\ [][Next]_vars

\* The viable options of a scan, and the best of them as the claim describes them
ViableOptions(a, food_options) ==
    {o \in food_options :
        /\ cell_food[o[2]][o[1]] > 0
        /\ hominid_agents[a].gut_contents_grams < belly_capacity_grams(hominid_agents[a])}

MaxRateMinDistance(a, food_options) ==
    LET viable == ViableOptions(a, food_options)
        Rate(o) == return_rate(plant_species[o[1]])
        Dist(o) == calculate_distance(hominid_agents[a].pos, o[2])
        top == {o \in viable : \A q \in viable : Rate(q) <= Rate(o)}
    IN {o \in top : \A q \in top : Dist(o) <= Dist(q)}

\* C11: for every agent and every outcome of its scan, the results
\* choose_best_food can return are exactly the viable candidates whose return
\* rate is the maximum over the viable candidates and whose distance is the
\* minimum among those of that rate; it returns no choice exactly when there is
\* no viable candidate.
BestFoodIsMaxRateMinDistance ==
    \A a \in DOMAIN hominid_agents :
        \A food_options \in scan_for_food(World, a, current_season) :
            choose_best_food(World, a, food_options) =
                IF ViableOptions(a, food_options) = {} THEN {NoPlant}
                ELSE MaxRateMinDistance(a, food_options)

\* An agent about to take its turn whose scan can leave a tie between two
\* species of equal return rate at equal distance, below a better option that
\* another scan sees.
TieBetweenTwoSpecies ==
    /\ pc = "agents"
    /\ agents_shuffled # <<>>
    /\ LET a == Head(agents_shuffled)
       IN \E food_options \in scan_for_food(World, a, current_season) :
             /\ \E o, q \in choose_best_food(World, a, food_options) :
                   o # NoPlant /\ q # NoPlant /\ o[1] # q[1] /\ o[2] = q[2]
             /\ \E o \in food_options : o \notin choose_best_food(World, a, food_options)

(***************************************************************************)
(* Capability strings (SpecOptions): the model is constructed with one     *)
(* boisei and one ergaster on a single cell, each from any string over the *)
(* letters m, c, M and C, and stepped while carcasses appear.  probe keeps  *)
(* the strings the constructor was given.                                  *)
(***************************************************************************)
OptionsMaxSteps == 3
OptionLetters == {"m", "c", "M", "C"}

OptionsParams ==
    [DefaultParams EXCEPT !.max_steps = OptionsMaxSteps, !.max_carcasses = 1]

\* Before the constructor has run: nothing can step (max_steps is 0)
InitOptions ==
    /\ params = DefaultParams
    /\ plant_species = <<>>
    /\ current_day = 1
    /\ current_season = 1
    /\ current_minute = 0
    /\ hominid_agents = <<>>
    /\ cell_food = [c \in Cells |-> <<>>]
    /\ carcass_objs = <<>>
    /\ carcasses = <<>>
    /\ found_carcasses = <<>>
    /\ pc = "idle"
    /\ agents_shuffled = <<>>
    /\ steps = 0
    /\ turns = <<>>
    /\ probe = NoProbe
    /\ runs = NoRuns

\* HOMINIDSModel.__init__ with n_boisei = n_ergaster = 1: load the parameters,
\* parse the two option strings, create and place the agents
ConstructModel ==
    /\ probe = NoProbe
    /\ \E boisei_options, ergaster_options \in SUBSET OptionLetters :
          /\ hominid_agents' =
                << HominidAgent("boisei", parse_agent_options(boisei_options), <<0, 0>>),
                   HominidAgent("ergaster", parse_agent_options(ergaster_options), <<0, 0>>) >>
          /\ probe' = [op |-> "construct", boisei_options |-> boisei_options,
                       ergaster_options |-> ergaster_options]
    /\ params' = OptionsParams
    /\ turns' = <<0, 0>>
    /\ UNCHANGED <<plant_species, current_day, current_season, current_minute, cell_food,
                   carcass_objs, carcasses, found_carcasses, pc, agents_shuffled, steps,
                   runs>>

NextOptions == ConstructModel \/ BeginStep \/ AgentTurn \/ EndStep

SpecOptions == InitOptions /\ [][NextOptions]_vars

\* C12: in every reachable state, every agent that cooperates can eat meat,
\* whatever capability string it was created from.
CooperationRequiresMeat ==
    \A a \in DOMAIN hominid_agents :
        hominid_agents[a].cooperates => hominid_agents[a].can_eat_meat

\* A boisei created from a string that asks for cooperation without meat has
\* taken a turn, and does not cooperate.
CooperationWithoutMeatRequested ==
    /\ probe # NoProbe
    /\ "c" \in lower(probe.boisei_options)
    /\ "m" \notin lower(probe.boisei_options)
    /\ turns[1] > 0
    /\ ~hominid_agents[1].cooperates

\* C13: the history of daily calorie totals of an agent never holds more
\* entries than the tracking window of its species (checked under SpecStarve,
\* where whole days pass).
HistoryWithinWindow ==
    \A a \in DOMAIN hominid_agents :
        Len(hominid_agents[a].calories_history) <= diet_track_length(hominid_agents[a])

\* C14: in every reachable state, for every cell and every species, the
\* abundance is at least 0 and at most the carrying capacity of the species in
\* the cell, whatever the interleaving of daily updates and bites (checked under
\* SpecPlant).
FoodWithinCapacity ==
    \A c \in Cells : \A sid \in SpeciesIds :
        /\ cell_food[c][sid] >= 0
        /\ cell_food[c][sid] <= max_food_amount(c, sid)

\* After daily updates, a bite larger than what was left has emptied a cell
\* that can carry the species.
FoodEatenToZeroAfterUpdates ==
    /\ current_day > 1
    /\ \E c \in Cells : \E sid \in SpeciesIds :
          /\ max_food_amount(c, sid) > 0
          /\ cell_food[c][sid] = 0

(***************************************************************************)
(* Loading a landscape (SpecLoad): the constructor reads a sheet of one    *)
(* row and two columns whose cells hold any of the zone codes in either    *)
(* case, an unknown code, an empty text or a number, builds the grid and   *)
(* one boisei, and the model is stepped.  probe keeps the sheet.           *)
(***************************************************************************)
LoadMaxSteps == 2

\* The values sheet.cell_value can return: a text, or a number (not a str)
CellValues ==
    {[is_str |-> TRUE, value |-> v] : v \in {"C", "F", "U", "c", "f", "u", "X", ""}}
        \cup {[is_str |-> FALSE, value |-> "1.0"]}

Sheets == [{<<0, 0>>, <<1, 0>>} -> CellValues]

\* str.upper on a zone code
upper(value) ==
    IF value = "c" THEN "C" ELSE IF value = "f" THEN "F" ELSE IF value = "u" THEN "U"
    ELSE IF value = "x" THEN "X" ELSE value

\* Parameters._load_landscape_parameters: the zone of each cell of the sheet
load_landscape_parameters(sheet) ==
    [c \in DOMAIN sheet |->
        IF sheet[c].is_str
        THEN LET cell_value == upper(sheet[c].value)
             IN IF cell_value = "C" THEN "CHANNEL"
                ELSE IF cell_value = "F" THEN "FLOODED"
                ELSE IF cell_value = "U" THEN "UNFLOODED"
                ELSE "UNFLOODED"
        ELSE "UNFLOODED"]

InitLoad ==
    /\ params = DefaultParams
    /\ plant_species = <<>>
    /\ current_day = 1
    /\ current_season = 1
    /\ current_minute = 0
    /\ hominid_agents = <<>>
    /\ cell_food = [c \in Cells |-> <<>>]
    /\ carcass_objs = <<>>
    /\ carcasses = <<>>
    /\ found_carcasses = <<>>
    /\ pc = "idle"
    /\ agents_shuffled = <<>>
    /\ steps = 0
    /\ turns = <<>>
    /\ probe = NoProbe
    /\ runs = NoRuns

\* HOMINIDSModel.__init__ on a sheet: Parameters.__init__ loads the landscape
\* (lines 137-165), then the grid, the agent and the cells are created
LoadAndConstruct ==
    /\ probe = NoProbe
    /\ \E sheet \in Sheets :
          /\ params' = [DefaultParams EXCEPT
                            !.grid_width = 2,
                            !.landscape_grid = load_landscape_parameters(sheet),
                            !.max_steps = LoadMaxSteps,
                            !.max_carcasses = 1]
          /\ probe' = [op |-> "load", sheet |-> sheet]
          /\ cell_food' = [c \in DOMAIN sheet |-> <<>>]
          /\ \E pos \in DOMAIN sheet :
                hominid_agents' =
                    << HominidAgent("boisei", parse_agent_options({"i", "m"}), pos) >>
    /\ turns' = <<0>>
    /\ UNCHANGED <<plant_species, current_day, current_season, current_minute,
                   carcass_objs, carcasses, found_carcasses, pc, agents_shuffled, steps,
                   runs>>

NextLoad == LoadAndConstruct \/ BeginStep \/ AgentTurn \/ EndStep

SpecLoad == InitLoad /\ [][NextLoad]_vars

\* A cell value that is none of the zone codes
UnknownZoneCode(cell_value) ==
    ~(cell_value.is_str /\ upper(cell_value.value) \in {"C", "F", "U"})

\* C15: once a sheet holding an unknown zone code has been given to the
\* constructor, no model exists and no minute is simulated.
UnknownZoneCodeRejected ==
    (/\ probe # NoProbe
     /\ \E c \in DOMAIN probe.sheet : UnknownZoneCode(probe.sheet[c]))
        => /\ hominid_agents = <<>>
           /\ steps = 0

\* The carcass the agent would choose: the best of its scan and the call it hears
BestCarcass(a) ==
    LET scanned == scan_for_carcasses(World, carcasses, a)
        called_carcass == check_for_carcass_calls(World, a)
        carcass_options == IF called_carcass # NoCarcass /\ called_carcass \notin Range(scanned)
                           THEN Append(scanned, called_carcass) ELSE scanned
    IN IF carcass_options # <<>> THEN choose_best_carcass(World, carcass_options)
       ELSE NoCarcass

\* C16: when the turn of an agent has both a best plant and a best carcass, and
\* the return rate of the plant is not strictly greater than the return rate of
\* meat, the turn scavenges the carcass (checked under SpecForage, where two
\* plant species return exactly what meat returns).
MeatWinsUnlessPlantStrictlyBetter ==
    \A a \in DOMAIN hominid_agents :
        \A food_options \in scan_for_food(World, a, current_season) \ {{}} :
            \A bp \in choose_best_food(World, a, food_options) :
                (/\ pc = "agents" /\ agents_shuffled # <<>> /\ a = Head(agents_shuffled)
                 /\ hominid_agents[a].active_time_remaining > 0
                 /\ ~is_nesting_time(hominid_agents[a])
                 /\ bp # NoPlant
                 /\ BestCarcass(a) # NoCarcass
                 /\ return_rate(plant_species[bp[1]])
                       <= params.carcass_calories_per_gram
                            * params.carcass_grams_eaten_per_unit_time)
                    => forage(World, carcasses, a, food_options, current_season, current_day)
                         = {[scavenge_carcass(World, a, BestCarcass(a), current_season,
                                              current_day)
                                EXCEPT !.agents[a].active_time_remaining = @ - 1]}

\* C17: every turn an agent takes with active minutes remaining leaves it
\* exactly one active minute less, whatever the turn did; a turn taken with
\* none remaining changes nothing of the agents, the cells or the carcasses
\* (checked under SpecForage, where the agent reaches a nest).
TurnSpendsOneActiveMinute ==
    [][\A a \in DOMAIN hominid_agents :
          turns'[a] = turns[a] + 1 =>
              IF hominid_agents[a].active_time_remaining > 0
              THEN hominid_agents'[a].active_time_remaining
                     = hominid_agents[a].active_time_remaining - 1
              ELSE /\ hominid_agents' = hominid_agents
                   /\ cell_food' = cell_food
                   /\ carcass_objs' = carcass_objs
                   /\ found_carcasses' = found_carcasses]_vars

(***************************************************************************)
(* Sharing carcasses (SpecShare): three boisei and one ergaster, all       *)
(* meat-eating cooperators, on a single cell without plants; days of       *)
(* DayLength minutes, light carcasses, one new carcass a day at most.      *)
(* The boisei are as many as a medium or large carcass requires, the       *)
(* ergaster is alone of its species.                                       *)
(***************************************************************************)
ShareMaxSteps == 6
ShareMaxCarcasses == 2

ShareParams ==
    [DefaultParams EXCEPT
        !.active_time_units_per_day = DayLength,
        !.extra_nesting_steps = 0,
        !.carcass_grams_eaten_per_unit_time = 60,
        !.small_carcass_weight_grams = 100,
        !.medium_carcass_weight_grams = 200,
        !.large_carcass_weight_grams = 400,
        !.max_steps = ShareMaxSteps,
        !.max_carcasses = ShareMaxCarcasses]

InitShare == InitModel(ShareParams, <<>>, 3, {"i", "m", "c"}, 1, {"i", "m", "c"})

SpecShare == InitShare /\ [][Next]_vars

\* C18: an agent about to forage does not choose a carcass that is on its
\* ignore set (the set is emptied by the day rollover).
IgnoredCarcassNotChosen ==
    \A a \in DOMAIN hominid_agents :
        (/\ pc = "agents" /\ agents_shuffled # <<>> /\ a = Head(agents_shuffled)
         /\ hominid_agents[a].active_time_remaining > 0
         /\ ~is_nesting_time(hominid_agents[a]))
            => BestCarcass(a) \notin hominid_agents[a].ignored_carcasses

(***************************************************************************)
(* Dividing the meat (SpecDivide): three cooperating boisei and one        *)
(* ergaster that eats no meat and wanders, on a ring of two cells without  *)
(* plants, with light carcasses.                                           *)
(***************************************************************************)
DivideMaxSteps == 2

DivideParams ==
    [DefaultParams EXCEPT
        !.grid_width = 2,
        !.landscape_grid = [c \in {<<0, 0>>, <<1, 0>>} |-> "UNFLOODED"],
        !.carcass_grams_eaten_per_unit_time = 60,
        !.small_carcass_weight_grams = 100,
        !.medium_carcass_weight_grams = 200,
        !.large_carcass_weight_grams = 400,
        !.max_steps = DivideMaxSteps,
        !.max_carcasses = 1]

InitDivide == InitModel(DivideParams, <<>>, 3, {"i", "m", "c"}, 1, {"i"})

SpecDivide == InitDivide /\ [][Next]_vars

\* C19: in a turn that takes meat from a medium or large carcass without
\* emptying the carcass or filling the gut, the grams taken are the per-minute
\* rate divided by the number of agents standing on the cell of the carcass at
\* that moment.
MeatDividedByAgentsAtCarcass ==
    [][\A cid \in DOMAIN carcass_objs :
          (/\ pc = "agents" /\ agents_shuffled # <<>>
           /\ carcass_objs[cid].size # "small"
           /\ carcass_objs'[cid].remaining_grams < carcass_objs[cid].remaining_grams
           /\ carcass_objs'[cid].remaining_grams > 0
           /\ hominid_agents'[Head(agents_shuffled)].gut_contents_grams
                < belly_capacity_grams(hominid_agents[Head(agents_shuffled)]))
             => carcass_objs[cid].remaining_grams - carcass_objs'[cid].remaining_grams
                  = params.carcass_grams_eaten_per_unit_time
                      \div Cardinality({b \in DOMAIN hominid_agents :
                              hominid_agents[b].pos = carcass_objs[cid].location})]_vars

\* C20: a medium or large carcass loses mass only in the turn of an agent that
\* has at least the required number of agents of its own species (itself
\* included if it stands there) on the cell of the carcass; and a meat-eater
\* whose gut is not full takes meat from the small carcass it chooses while
\* meat is left on it, however few of its species are there (checked under
\* SpecShare).
LargeCarcassNeedsQuorum ==
    [][\A cid \in DOMAIN carcass_objs :
          LET c == carcass_objs[cid]
              SameSpeciesThere(a) ==
                  Cardinality({b \in DOMAIN hominid_agents :
                      /\ hominid_agents[b].pos = c.location
                      /\ hominid_agents[b].species = hominid_agents[a].species})
          IN /\ (c.size # "small" /\ carcass_objs'[cid].remaining_grams < c.remaining_grams)
                => /\ pc = "agents" /\ agents_shuffled # <<>>
                   /\ SameSpeciesThere(Head(agents_shuffled))
                        >= params.number_of_agents_for_carcass
             /\ (/\ pc = "agents" /\ agents_shuffled # <<>> /\ pc' = "agents"
                 /\ c.size = "small" /\ c.remaining_grams > 0
                 /\ hominid_agents[Head(agents_shuffled)].active_time_remaining > 0
                 /\ BestCarcass(Head(agents_shuffled)) = cid
                 /\ hominid_agents[Head(agents_shuffled)].gut_contents_grams
                      < belly_capacity_grams(hominid_agents[Head(agents_shuffled)]))
                => carcass_objs'[cid].remaining_grams < c.remaining_grams]_vars

\* The three boisei have eaten from a medium or large carcass at which the
\* ergaster, alone of its species, is waiting with an empty gut.
QuorumAteWhileLoneAgentWaited ==
    \E cid \in DOMAIN carcass_objs :
        /\ carcass_objs[cid].size # "small"
        /\ carcass_objs[cid].remaining_grams < carcass_objs[cid].weight_grams
        /\ \A a \in 1..3 : hominid_agents[a].gut_contents_grams > 0
        /\ hominid_agents[4].waiting_at_carcass = cid
        /\ hominid_agents[4].gut_contents_grams = 0

(***************************************************************************)
(* Calls (SpecBand): the single cell, short day and light carcasses of     *)
(* ShareParams with two boisei that eat meat and do not cooperate and one  *)
(* cooperating ergaster, alone of its species, whose calls they hear.      *)
(***************************************************************************)
InitBand == InitModel(ShareParams, <<>>, 2, {"i", "m"}, 1, {"i", "m", "c"})

SpecBand == InitBand /\ [][Next]_vars

\* C21: the turn of a meat-eating agent that does not cooperate and chooses a
\* medium or large carcass with fewer agents of its species on the cell than
\* required puts the carcass on its ignore set and takes nothing from any
\* carcass; after every step an agent that does not cooperate has a wait timer
\* of 0 and awaits no carcass.
NonCooperatorIgnoresAtOnce ==
    [][/\ \A a \in DOMAIN hominid_agents :
             LET ag == hominid_agents[a]
                 cid == BestCarcass(a)
             IN (/\ pc = "agents" /\ agents_shuffled # <<>> /\ a = Head(agents_shuffled)
                 /\ pc' = "agents"
                 /\ ag.active_time_remaining > 0
                 /\ ag.can_eat_meat /\ ~ag.cooperates
                 /\ cid # NoCarcass
                 /\ carcass_objs[cid].size # "small"
                 /\ Cardinality({b \in DOMAIN hominid_agents :
                        /\ hominid_agents[b].pos = carcass_objs[cid].location
                        /\ hominid_agents[b].species = ag.species})
                      < params.number_of_agents_for_carcass)
                => /\ cid \in hominid_agents'[a].ignored_carcasses
                   /\ carcass_objs' = carcass_objs
                   /\ hominid_agents'[a].gut_contents_grams = ag.gut_contents_grams
                   /\ hominid_agents'[a].calories_today = ag.calories_today
       /\ \A a \in DOMAIN hominid_agents' :
             ~hominid_agents'[a].cooperates
                => /\ hominid_agents'[a].wait_timer = 0
                   /\ hominid_agents'[a].waiting_at_carcass = NoCarcass]_vars

\* A boisei that does not cooperate has put an untouched medium or large
\* carcass, to which the ergaster called it, on its ignore set.
CalledNonCooperatorIgnored ==
    \E a \in DOMAIN hominid_agents : \E cid \in DOMAIN carcass_objs :
        /\ ~hominid_agents[a].cooperates
        /\ cid \in hominid_agents[a].ignored_carcasses
        /\ cid \in Range(found_carcasses)
        /\ carcass_objs[cid].size # "small"
        /\ carcass_objs[cid].remaining_grams = carcass_objs[cid].weight_grams

\* C22: a carcass enters found_carcasses only in the turn of a cooperating
\* agent, and only when the carcass is medium or large and that agent is the
\* only one of its species on the cell of the carcass, fewer than required
\* (checked under SpecBand).
OnlyUnderThresholdCarcassesAreCalled ==
    [][\A cid \in DOMAIN carcass_objs :
          (cid \in Range(found_carcasses') /\ cid \notin Range(found_carcasses))
             => /\ pc = "agents" /\ agents_shuffled # <<>>
                /\ hominid_agents[Head(agents_shuffled)].cooperates
                /\ carcass_objs[cid].size # "small"
                /\ Cardinality({b \in DOMAIN hominid_agents :
                       /\ hominid_agents[b].pos = carcass_objs[cid].location
                       /\ hominid_agents[b].species
                            = hominid_agents[Head(agents_shuffled)].species}) = 1
                /\ 1 < params.number_of_agents_for_carcass]_vars

\* C23: while the agents of a step take their turns, every carcass in
\* found_carcasses was called by a cooperating agent that has already taken its
\* turn in this step; so the set is empty before the first turn of every step,
\* and a call is heard only by agents whose turn comes later in the same minute
\* (checked under SpecBand).
CallsLastOneMinute ==
    pc = "agents" =>
        \A cid \in Range(found_carcasses) :
            \E b \in DOMAIN hominid_agents :
                /\ turns[b] = 1
                /\ b \notin Range(agents_shuffled)
                /\ hominid_agents[b].cooperates

\* An agent about to take its turn hears the call another agent made earlier
\* in the same minute.
CallHeardLaterInTheMinute ==
    /\ pc = "agents"
    /\ agents_shuffled # <<>>
    /\ turns[Head(agents_shuffled)] = 0
    /\ ~hominid_agents[Head(agents_shuffled)].cooperates
    /\ check_for_carcass_calls(World, Head(agents_shuffled)) # NoCarcass

\* C24: a step that changes the day leaves every agent as it was except that
\* calories_today is appended once to calories_history and reset to 0, the gut
\* is emptied, the active time is reset to the length of the day, the nesting
\* flag and the nest site are cleared, the ignore set is emptied, the wait
\* timer is 0 and no carcass is awaited; no other step touches the history
\* (checked under SpecShare).
RolloverResetsDailyState ==
    [][\A a \in DOMAIN hominid_agents :
          LET ag == hominid_agents[a]
          IN IF current_day' # current_day
             THEN hominid_agents'[a] =
                     [ag EXCEPT !.calories_history = ag.calories_history
                                                       \o <<ag.calories_today>>,
                                !.calories_today = 0,
                                !.gut_contents_grams = 0,
                                !.active_time_remaining = params.active_time_units_per_day,
                                !.is_nesting = FALSE,
                                !.nest_location = NoPos,
                                !.ignored_carcasses = {},
                                !.wait_timer = 0,
                                !.waiting_at_carcass = NoCarcass]
             ELSE hominid_agents'[a].calories_history = ag.calories_history]_vars

\* The first minute of the second day: every agent has one day of history, the
\* boisei ate on the first day and every gut is empty again.
SecondDayStartsReset ==
    /\ current_day = 2
    /\ current_minute = 0
    /\ pc = "idle"
    /\ \A a \in DOMAIN hominid_agents :
          /\ Len(hominid_agents[a].calories_history) = 1
          /\ hominid_agents[a].gut_contents_grams = 0
    /\ hominid_agents[1].calories_history[1] > 0

\* C25: the active carcasses, the carcasses' records of the agents present and
\* the number of carcasses change only at the end of the step taken at minute
\* 0, after the last turn; that step updates the plants of every cell once and
\* leaves no depleted carcass in the active set, and it keeps every carcass
\* that was active and still has meat; the end of any other step leaves the
\* plants as they were (checked under Spec).
DailyUpdateAtMinuteZero ==
    [][/\ (\/ carcasses' # carcasses
           \/ Len(carcass_objs') # Len(carcass_objs)
           \/ \E i \in DOMAIN carcass_objs :
                 carcass_objs'[i].agents_present # carcass_objs[i].agents_present)
          => (pc = "agents" /\ agents_shuffled = <<>> /\ current_minute = 0)
       /\ (pc = "agents" /\ pc' = "idle" /\ current_minute = 0)
          => /\ cell_food' = update_plant_food(cell_food, current_season)
             /\ \A i \in Range(carcasses') : carcass_objs'[i].remaining_grams > 0
             /\ \A i \in Range(carcasses) :
                   carcass_objs[i].remaining_grams > 0 => i \in Range(carcasses')
       /\ (pc = "agents" /\ pc' = "idle" /\ current_minute # 0)
          => cell_food' = cell_food]_vars

\* After the second step taken at minute 0, a carcass that was eaten up during
\* the first day is no longer in the active set.
DepletedCarcassPruned ==
    /\ pc = "idle"
    /\ current_day = 2
    /\ current_minute = 1
    /\ \E i \in DOMAIN carcass_objs :
          /\ carcass_objs[i].remaining_grams = 0
          /\ i \notin Range(carcasses)

\* C26: the turn of an agent with 0 < active time <= extra_nesting_steps that
\* is not nesting and for which the nest search returns a site leaves the agent
\* on that site, nesting, with that site as its nest location, and changes no
\* gut, calories, plant abundance, carcass, ignore set or call; an agent that
\* is nesting stays nesting, with the same nest location, until the day changes
\* (checked under SpecForage).
NestTurnOnlyMovesAndMarks ==
    [][\A a \in DOMAIN hominid_agents :
          LET ag == hominid_agents[a]
              site == find_nest_site(World, a)
          IN /\ (/\ pc = "agents" /\ agents_shuffled # <<>> /\ a = Head(agents_shuffled)
                 /\ pc' = "agents"
                 /\ ag.active_time_remaining > 0
                 /\ ag.active_time_remaining <= params.extra_nesting_steps
                 /\ ~ag.is_nesting
                 /\ site # NoPos)
                => /\ hominid_agents'[a].pos = site
                   /\ hominid_agents'[a].is_nesting
                   /\ hominid_agents'[a].nest_location = site
                   /\ hominid_agents'[a].gut_contents_grams = ag.gut_contents_grams
                   /\ hominid_agents'[a].calories_today = ag.calories_today
                   /\ hominid_agents'[a].ignored_carcasses = ag.ignored_carcasses
                   /\ cell_food' = cell_food
                   /\ carcass_objs' = carcass_objs
                   /\ found_carcasses' = found_carcasses
             /\ (ag.is_nesting /\ current_day' = current_day)
                => /\ hominid_agents'[a].is_nesting
                   /\ hominid_agents'[a].nest_location = ag.nest_location]_vars

\* An agent that moved to a nest site has taken a later turn the same day and
\* is still marked as nesting there.
AgentMovedToNest ==
    \E a \in DOMAIN hominid_agents :
        /\ hominid_agents[a].is_nesting
        /\ hominid_agents[a].nest_location # NoPos
        /\ hominid_agents[a].active_time_remaining < params.extra_nesting_steps

(***************************************************************************)
(* Scanning and moving (SpecField): one ergaster that neither digs nor     *)
(* eats meat on a torus of four by four cells, of which only (0,0) and     *)
(* (2,2) are unflooded and carry plants: a fruit it can eat and sees half  *)
(* of the time, and four species it must not eat (one disabled, one that   *)
(* requires tools, one not edible by ergaster, one out of season).  The    *)
(* wandering distance of the parameter sheet is 2 or 4.                    *)
(***************************************************************************)
FieldMaxSteps == 3

FieldSpecies(disabled, tools_required, edible_by_ergaster, seasons_fruiting, visibility) ==
    [ disabled |-> disabled, tools_required |-> tools_required,
      has_digging_phase |-> tools_required,
      edible_by_boisei |-> TRUE, edible_by_ergaster |-> edible_by_ergaster,
      plants_per_channel |-> 0, plants_per_flooded |-> 0,
      plants_per_unflooded |-> 200 * OneUnit,
      is_nesting_tree |-> FALSE, seasons_fruiting |-> seasons_fruiting,
      grams_per_feeding_unit |-> 100, calories_per_gram |-> 2,
      visibility_probability |-> visibility, handling_time_minutes |-> 1 ]

FieldCatalog ==
    << FieldSpecies(FALSE, FALSE, TRUE, <<TRUE, TRUE, TRUE, TRUE>>, 50),
       FieldSpecies(TRUE, FALSE, TRUE, <<TRUE, TRUE, TRUE, TRUE>>, 100),
       FieldSpecies(FALSE, TRUE, TRUE, <<TRUE, TRUE, TRUE, TRUE>>, 100),
       FieldSpecies(FALSE, FALSE, FALSE, <<TRUE, TRUE, TRUE, TRUE>>, 100),
       FieldSpecies(FALSE, FALSE, TRUE, <<FALSE, TRUE, TRUE, TRUE>>, 100) >>

FieldParams ==
    [DefaultParams EXCEPT
        !.grid_width = 4,
        !.grid_height = 4,
        !.landscape_grid = [c \in (0..3) \X (0..3) |->
                               IF c \in {<<0, 0>>, <<2, 2>>} THEN "UNFLOODED" ELSE "FLOODED"],
        !.ergaster_belly_capacity_grams = 250,
        !.max_steps = FieldMaxSteps]

InitField ==
    \E wandering_distance \in {2, 4} :
        InitModel([FieldParams EXCEPT !.wandering_distance = wandering_distance],
                  FieldCatalog, 0, {}, 1, {"i"})

SpecField == InitField /\ [][Next]_vars

\* The cells at most one step away on each axis of the torus
MooreNeighbourhood(pos) ==
    {c \in Cells :
        /\ (c[1] - pos[1]) % params.grid_width \in {0, 1, params.grid_width - 1}
        /\ (c[2] - pos[2]) % params.grid_height \in {0, 1, params.grid_height - 1}}

\* C27: a turn in which an agent gains plant calories ends in a cell of the
\* nine cells of its neighbourhood at the start of the turn, and the calories
\* are those of a species that is enabled, edible by the agent's kind, not
\* tool-required unless the agent digs, fruiting in the current season and of
\* positive abundance in that cell at the start of the turn.
PlantCaloriesOnlyFromEligibleNeighbours ==
    [][\A a \in DOMAIN hominid_agents :
          LET ag == hominid_agents[a]
              gained == hominid_agents'[a].plant_calories_by_season[current_season]
                          - ag.plant_calories_by_season[current_season]
          IN (pc = "agents" /\ pc' = "agents" /\ gained > 0)
             => /\ Cardinality(MooreNeighbourhood(ag.pos)) = 9
                /\ hominid_agents'[a].pos \in MooreNeighbourhood(ag.pos)
                /\ \E sid \in SpeciesIds :
                      LET sp == plant_species[sid]
                      IN /\ ~sp.disabled
                         /\ IF ag.species = "boisei" THEN sp.edible_by_boisei
                            ELSE sp.edible_by_ergaster
                         /\ sp.tools_required => ag.can_dig
                         /\ sp.seasons_fruiting[current_season]
                         /\ cell_food[hominid_agents'[a].pos][sid] > 0
                         /\ cell_food'[hominid_agents'[a].pos][sid]
                              < cell_food[hominid_agents'[a].pos][sid]
                         /\ gained = sp.calories_per_gram
                                       * (hominid_agents'[a].gut_contents_grams
                                            - ag.gut_contents_grams)]_vars

\* In its first turn the agent has moved to the fruit cell (0,0) of its
\* neighbourhood and eaten one feeding unit there.
AteInNeighbouringCell ==
    /\ hominid_agents[1].pos = <<0, 0>>
    /\ Get(hominid_agents[1].activity_log, <<<<0, 0>>, "traveling">>) = 1
    /\ Get(hominid_agents[1].activity_log, <<<<0, 0>>, "eating">>) = 1
    /\ hominid_agents[1].plant_calories_by_season[1] = 200
    /\ cell_food[<<0, 0>>][1] = initial_food_amount(<<0, 0>>, 1) - OneUnit

\* C28: a turn in which an agent eats a plant adds g = min(grams of a feeding
\* unit, remaining gut capacity) to its gut, g times the calories per gram to
\* its calories today, to the plant ledgers of the season and of the day and
\* to the root ledger (tool-required or digging-phase species) or else the
\* non-root ledger, and lowers that species in the agent's cell by one unit,
\* floored at zero, whatever g is; no other species or cell changes.
EatingAddsCappedGramsAndRemovesOneUnit ==
    [][\A a \in DOMAIN hominid_agents :
          LET ag == hominid_agents[a]
              after == hominid_agents'[a]
              s == current_season
          IN (/\ pc = "agents" /\ pc' = "agents"
              /\ after.plant_calories_by_season[s] > ag.plant_calories_by_season[s])
             => \E sid \in SpeciesIds :
                  LET sp == plant_species[sid]
                      g == Min(sp.grams_per_feeding_unit,
                               belly_capacity_grams(ag) - ag.gut_contents_grams)
                      cal == g * sp.calories_per_gram
                      root == sp.tools_required \/ sp.has_digging_phase
                  IN /\ after.gut_contents_grams = ag.gut_contents_grams + g
                     /\ after.calories_today = ag.calories_today + cal
                     /\ after.plant_calories_by_season[s]
                          = ag.plant_calories_by_season[s] + cal
                     /\ Get(after.daily_plant_calories, current_day)
                          = Get(ag.daily_plant_calories, current_day) + cal
                     /\ after.root_calories_by_season[s]
                          = ag.root_calories_by_season[s] + (IF root THEN cal ELSE 0)
                     /\ after.nonroot_calories_by_season[s]
                          = ag.nonroot_calories_by_season[s] + (IF root THEN 0 ELSE cal)
                     /\ cell_food'[after.pos][sid]
                          = Max(0, cell_food[after.pos][sid] - OneUnit)
                     /\ \A c \in Cells : \A other \in SpeciesIds :
                          (c # after.pos \/ other # sid)
                             => cell_food'[c][other] = cell_food[c][other]]_vars

\* The agent has filled its gut with the tuber alone: a unit of 150 grams,
\* then the 105 grams that were left of a second unit, which took a whole
\* unit from the cell; both bites went to the root ledger.
GutFilledByPartialBite ==
    /\ hominid_agents[1].gut_contents_grams = belly_capacity_grams(hominid_agents[1])
    /\ \A s \in 1..4 : hominid_agents[1].carcass_calories_by_season[s] = 0
    /\ hominid_agents[1].nonroot_calories_by_season[1] = 0
    /\ hominid_agents[1].root_calories_by_season[1] = (150 + 105) * 3
    /\ hominid_agents[1].calories_today = (150 + 105) * 3
    /\ cell_food[<<0, 0>>][3] = 0
    /\ pc = "agents"

\* C29: a foraging turn in which the agent eats nothing moves it to a cell of
\* its neighbourhood with the highest positive prospect, the nearest of them;
\* if every prospect is zero the agent wanders one unit step and so leaves
\* the cell it was in.
ForagerWithoutChoiceMovesOn ==
    [][\A a \in DOMAIN hominid_agents :
          LET ag == hominid_agents[a]
              after == hominid_agents'[a]
              neighbors == MooreNeighbourhood(ag.pos)
              Value(c) == evaluate_cell_prospects(World, a, c, current_season)
              Dist(c) == calculate_distance(ag.pos, c)
              top == {c \in neighbors : \A q \in neighbors : Value(q) <= Value(c)}
          IN (/\ pc = "agents" /\ agents_shuffled # <<>> /\ a = Head(agents_shuffled)
              /\ turns'[a] = turns[a] + 1
              /\ after.active_time_remaining = ag.active_time_remaining - 1
              /\ after.gut_contents_grams = ag.gut_contents_grams)
             => IF \E c \in neighbors : Value(c) > 0
                THEN /\ after.pos \in top
                     /\ \A q \in top : Dist(after.pos) <= Dist(q)
                ELSE /\ after.pos \in neighbors
                     /\ after.pos # ag.pos]_vars

(***************************************************************************)
(* Group nesting (SpecNest): three ergaster that nest in groups on the     *)
(* ring of SpecForage, whose two unflooded cells carry a nesting tree,     *)
(* and for whom it is nesting time from the first minute of the day.  An   *)
(* ergaster nests with a cell that holds all of its peers, a boisei with   *)
(* one that holds a quarter of them.                                       *)
(***************************************************************************)
NestMaxSteps == 2

NestParams ==
    [ForageParams EXCEPT
        !.ergaster_group_nesting_agent_threshold = 100,
        !.extra_nesting_steps = DayLength,
        !.max_steps = NestMaxSteps,
        !.max_carcasses = 0]

InitNest == InitModel(NestParams, ForageCatalog, 0, {}, 3, {"i", "g"})

SpecNest == InitNest /\ [][Next]_vars

\* C30: the turn that sends a group-nesting agent to its nest sends it to the
\* nearest cell whose count of same-species peers reaches the share of the
\* peers configured for the agent's own species, and to the site of the
\* individual search if there is no such cell or no peer.
GroupNestUsesOwnSpeciesThreshold ==
    [][\A a \in DOMAIN hominid_agents :
          LET ag == hominid_agents[a]
              after == hominid_agents'[a]
              peers == {b \in DOMAIN hominid_agents :
                          hominid_agents[b].species = ag.species /\ b # a}
              share == IF ag.species = "boisei"
                       THEN params.boisei_group_nesting_agent_threshold
                       ELSE params.ergaster_group_nesting_agent_threshold
              threshold == (Cardinality(peers) * share) \div 100
              Count(c) == Cardinality({b \in peers : hominid_agents[b].pos = c})
              suitable == {c \in {hominid_agents[b].pos : b \in peers} :
                              Count(c) >= threshold}
              Distance(c) == Abs(c[1] - ag.pos[1]) + Abs(c[2] - ag.pos[2])
          IN (/\ pc = "agents" /\ agents_shuffled # <<>> /\ a = Head(agents_shuffled)
              /\ turns'[a] = turns[a] + 1
              /\ ag.group_nesting /\ ~ag.is_nesting /\ after.is_nesting)
             => IF suitable # {}
                THEN /\ after.nest_location \in suitable
                     /\ \A q \in suitable :
                           Distance(after.nest_location) <= Distance(q)
                ELSE after.nest_location = find_individual_nest_site(World, a)]_vars

\* C31: zero is not absorbing.  The daily update sets a species of positive
\* capacity that is at exactly 0 in its fruiting season to capacity * 0.01,
\* and leaves every species of positive capacity strictly positive.
DailyUpdateReseedsEmptySpecies ==
    [][current_day' # current_day =>
          \A c \in Cells : \A sid \in SpeciesIds :
              max_food_amount(c, sid) > 0 =>
                 /\ cell_food'[c][sid] > 0
                 /\ (cell_food[c][sid] = 0
                       /\ plant_species[sid].seasons_fruiting[current_season])
                      => cell_food'[c][sid] = max_food_amount(c, sid) \div 100]_vars

\* Within the fruiting season the species has been eaten out and the daily
\* update has set it to a hundredth of the capacity again.
EmptySpeciesReseeded ==
    /\ current_day > 1
    /\ current_season = 1
    /\ max_food_amount(<<0, 0>>, 1) > 0
    /\ cell_food[<<0, 0>>][1] = max_food_amount(<<0, 0>>, 1) \div 100

\* C32: an agent takes mass from a carcass only in a turn in which it stands
\* in the carcass's cell, so that the count of agents at the carcass includes
\* the agent itself.
MeatTakenOnlyAtTheCarcass ==
    [][\A a \in DOMAIN hominid_agents : \A cid \in DOMAIN carcass_objs :
          (/\ pc = "agents" /\ agents_shuffled # <<>> /\ a = Head(agents_shuffled)
           /\ turns'[a] = turns[a] + 1
           /\ carcass_objs'[cid].remaining_grams < carcass_objs[cid].remaining_grams)
             => /\ hominid_agents[a].pos = carcass_objs[cid].location
                /\ hominid_agents'[a].pos = carcass_objs[cid].location
                /\ n_agents_at(World, a, cid) >= 1]_vars

\* C33: a cooperating agent adds a carcass to its ignore set only when it has
\* been waiting at that same carcass and its wait timer has run out.
CooperatorIgnoresOnlyAfterWaiting ==
    [][\A a \in DOMAIN hominid_agents :
          \A cid \in hominid_agents'[a].ignored_carcasses
                        \ hominid_agents[a].ignored_carcasses :
              hominid_agents[a].cooperates
                 => /\ hominid_agents[a].waiting_at_carcass = cid
                    /\ hominid_agents[a].wait_timer = 0]_vars

\* C34: the carcass an agent about to forage selects, from its own scan or
\* from the calls of the minute, has mass left at the moment it is chosen.
ChosenCarcassHasMeat ==
    \A a \in DOMAIN hominid_agents :
        (/\ pc = "agents" /\ agents_shuffled # <<>> /\ a = Head(agents_shuffled)
         /\ hominid_agents[a].active_time_remaining > 0
         /\ ~is_nesting_time(hominid_agents[a])
         /\ BestCarcass(a) # NoCarcass)
            => carcass_objs[BestCarcass(a)].remaining_grams > 0

(***************************************************************************)
(* Arriving at a carcass (SpecArrive): two cooperating meat-eating boisei  *)
(* and one plant-eating ergaster on a ring of two cells without plants.    *)
(* Two agents of a species are required at a medium or large carcass, and  *)
(* an agent sees a carcass and hears a call only in its own cell, so a     *)
(* boisei in the other cell wanders until it arrives.  The gut of a boisei *)
(* holds 70 grams, a little more than one portion of meat.                 *)
(***************************************************************************)
ArriveMaxSteps == 3

ArriveParams ==
    [ShareParams EXCEPT
        !.grid_width = 2,
        !.landscape_grid = [c \in {<<0, 0>>, <<1, 0>>} |-> "UNFLOODED"],
        !.number_of_agents_for_carcass = 2,
        !.boisei_belly_capacity_grams = 70,
        !.carcass_detection_range = 0,
        !.earshot_distance = 0,
        !.max_steps = ArriveMaxSteps,
        !.max_carcasses = 1]

InitArrive == InitModel(ArriveParams, <<>>, 2, {"i", "m", "c"}, 1, {"i"})

SpecArrive == InitArrive /\ [][Next]_vars

\* C35: the wait timer of every agent lies in 0..WaitLength, a positive timer
\* comes with an awaited carcass, and an agent that has just eaten from a
\* medium or large carcass at which enough agents of its species stand is no
\* longer waiting (timer 0, no awaited carcass).
WaitStateConsistent ==
    [][\A a \in DOMAIN hominid_agents :
          LET ag == hominid_agents[a]
              after == hominid_agents'[a]
          IN /\ after.wait_timer \in 0..WaitLength
             /\ after.wait_timer > 0 => after.waiting_at_carcass # NoCarcass
             /\ \A cid \in DOMAIN carcass_objs :
                   (/\ pc = "agents" /\ agents_shuffled # <<>>
                    /\ a = Head(agents_shuffled)
                    /\ turns'[a] = turns[a] + 1
                    /\ carcass_objs[cid].size # "small"
                    /\ n_agents_at(World, a, cid) >= params.number_of_agents_for_carcass
                    /\ carcass_objs'[cid].remaining_grams
                         < carcass_objs[cid].remaining_grams)
                      => /\ after.wait_timer = 0
                         /\ after.waiting_at_carcass = NoCarcass]_vars

\* The grams taken from all carcasses so far, and the grams of meat all agents
\* have been credited with
RECURSIVE SumOver(_, _)
SumOver(f, S) ==
    IF S = {} THEN 0
    ELSE LET x == CHOOSE y \in S : TRUE IN f[x] + SumOver(f, S \ {x})

GramsTaken(objs) ==
    SumOver([i \in DOMAIN objs |-> objs[i].weight_grams - objs[i].remaining_grams],
            DOMAIN objs)

CarcassCalories(agents) ==
    SumOver([a \in DOMAIN agents |->
                SumOver(agents[a].carcass_calories_by_season, 1..4)], DOMAIN agents)

\* C36: a turn that takes meat removes from one carcass exactly the grams it
\* adds to the agent's gut, no more than the carcass had left nor than the gut
\* had room for, and credits grams times the calories per gram to calories
\* today and to the carcass ledgers of the season and of the day; so the mass
\* missing from the carcasses is always the mass the agents have taken.
MeatTakenIsMeatSwallowed ==
    [][/\ GramsTaken(carcass_objs') * params.carcass_calories_per_gram
            = CarcassCalories(hominid_agents')
       /\ \A a \in DOMAIN hominid_agents : \A cid \in DOMAIN carcass_objs :
             LET ag == hominid_agents[a]
                 after == hominid_agents'[a]
                 grams == carcass_objs[cid].remaining_grams
                            - carcass_objs'[cid].remaining_grams
                 calories == grams * params.carcass_calories_per_gram
             IN (/\ pc = "agents" /\ agents_shuffled # <<>> /\ a = Head(agents_shuffled)
                 /\ turns'[a] = turns[a] + 1
                 /\ grams # 0)
                => /\ grams > 0
                   /\ grams <= carcass_objs[cid].remaining_grams
                   /\ grams <= belly_capacity_grams(ag) - ag.gut_contents_grams
                   /\ after.gut_contents_grams = ag.gut_contents_grams + grams
                   /\ after.calories_today = ag.calories_today + calories
                   /\ after.carcass_calories_by_season[current_season]
                        = ag.carcass_calories_by_season[current_season] + calories
                   /\ Get(after.daily_carcass_calories, current_day)
                        = Get(ag.daily_carcass_calories, current_day) + calories
                   /\ \A other \in DOMAIN carcass_objs \ {cid} :
                         carcass_objs'[other] = carcass_objs[other]]_vars

\* Of a small carcass of 100 grams one agent has swallowed a portion of 60
\* grams and the 10 grams its gut had room for, and the other agent the 30
\* grams that were left.
SmallCarcassSharedOut ==
    /\ pc = "agents"
    /\ \E cid \in DOMAIN carcass_objs :
          carcass_objs[cid].size = "small" /\ carcass_objs[cid].remaining_grams = 0
    /\ \E a, b \in DOMAIN hominid_agents :
          /\ hominid_agents[a].gut_contents_grams = belly_capacity_grams(hominid_agents[a])
          /\ hominid_agents[a].carcass_calories_by_season[current_season]
                = 70 * params.carcass_calories_per_gram
          /\ hominid_agents[b].carcass_calories_by_season[current_season]
                = 30 * params.carcass_calories_per_gram

\* The ledgers of an agent balance: per season plant = root + non-root, and
\* plant and carcass calories over the seasons are the recorded days plus today
LedgersBalance(ag) ==
    /\ \A s \in 1..4 :
          /\ ag.plant_calories_by_season[s]
                = ag.root_calories_by_season[s] + ag.nonroot_calories_by_season[s]
          /\ ag.root_calories_by_season[s] >= 0
          /\ ag.nonroot_calories_by_season[s] >= 0
          /\ ag.carcass_calories_by_season[s] >= 0
    /\ SumOver(ag.plant_calories_by_season, 1..4)
         + SumOver(ag.carcass_calories_by_season, 1..4)
         = SumSeq(ag.calories_history) + ag.calories_today
    /\ \A d \in DOMAIN ag.daily_plant_calories : ag.daily_plant_calories[d] >= 0
    /\ \A d \in DOMAIN ag.daily_carcass_calories : ag.daily_carcass_calories[d] >= 0

\* C37: for every agent and season plant calories are root plus non-root
\* calories, the plant and carcass calories of all seasons add up to the
\* recorded daily history plus calories today, and every ledger entry is
\* non-negative and never decreases.
LedgersBalanceAndGrow ==
    [][\A a \in DOMAIN hominid_agents :
          LET ag == hominid_agents[a]
              after == hominid_agents'[a]
          IN /\ LedgersBalance(ag)
             /\ LedgersBalance(after)
             /\ \A s \in 1..4 :
                   /\ after.plant_calories_by_season[s] >= ag.plant_calories_by_season[s]
                   /\ after.root_calories_by_season[s] >= ag.root_calories_by_season[s]
                   /\ after.nonroot_calories_by_season[s]
                        >= ag.nonroot_calories_by_season[s]
                   /\ after.carcass_calories_by_season[s]
                        >= ag.carcass_calories_by_season[s]
             /\ \A d \in DOMAIN ag.daily_plant_calories :
                   Get(after.daily_plant_calories, d) >= ag.daily_plant_calories[d]
             /\ \A d \in DOMAIN ag.daily_carcass_calories :
                   Get(after.daily_carcass_calories, d) >= ag.daily_carcass_calories[d]]_vars

\* On the second day an agent has a recorded first day with calories from
\* plants and from meat on its ledgers, and has eaten again today.
LedgersAcrossTheRollover ==
    \E a \in DOMAIN hominid_agents :
        /\ Len(hominid_agents[a].calories_history) = 1
        /\ hominid_agents[a].calories_history[1] > 0
        /\ hominid_agents[a].calories_today > 0
        /\ hominid_agents[a].carcass_calories_by_season[1] > 0
        /\ hominid_agents[a].plant_calories_by_season[1] > 0

\* C38: an agent that cannot eat meat never takes mass from a carcass in its
\* turn, has no carcass calories on any ledger, never waits at a carcass and
\* never ignores one.
NoMeatForPlantEaters ==
    [][\A a \in DOMAIN hominid_agents :
          ~hominid_agents[a].can_eat_meat
             => /\ \A s \in 1..4 : hominid_agents'[a].carcass_calories_by_season[s] = 0
                /\ \A d \in DOMAIN hominid_agents'[a].daily_carcass_calories :
                      hominid_agents'[a].daily_carcass_calories[d] = 0
                /\ hominid_agents'[a].wait_timer = 0
                /\ hominid_agents'[a].waiting_at_carcass = NoCarcass
                /\ hominid_agents'[a].ignored_carcasses = {}
                /\ (pc = "agents" /\ agents_shuffled # <<>> /\ a = Head(agents_shuffled))
                      => carcass_objs' = carcass_objs]_vars

\* The turn has come to an agent that cannot eat meat while it stands in the
\* cell of a carcass with meat left that another agent has called this minute.
PlantEaterAtCalledCarcass ==
    /\ pc = "agents"
    /\ agents_shuffled # <<>>
    /\ ~hominid_agents[Head(agents_shuffled)].can_eat_meat
    /\ \E cid \in Range(found_carcasses) :
          /\ carcass_objs[cid].location = hominid_agents[Head(agents_shuffled)].pos
          /\ carcass_objs[cid].remaining_grams > 0

\* C39: from the minute it is marked nesting until the day rollover clears
\* the mark, an agent stays in the cell recorded as its nest location.
NestingAgentStaysAtNest ==
    \A a \in DOMAIN hominid_agents :
        hominid_agents[a].is_nesting
           => hominid_agents[a].pos = hominid_agents[a].nest_location

====
